---- MODULE Spec2Model ----
(***************************************************************************)
(* The context retrieval engine of ReactNativeLLM: ContextProcessor        *)
(* (chunking, keyword extraction, relevance scoring, prompt assembly),     *)
(* ContextFileManager (the document read) and MCPContextManager (the       *)
(* cached document and its initialize / refresh / query / cleanup          *)
(* lifecycle), as a state machine over an external document file.          *)
(*                                                                         *)
(* Strings are sequences of one-character strings, so that trim, split,    *)
(* replace, toLowerCase and includes act as they do in the source.  TLC    *)
(* evaluates operators on a shallow stack, so the string operators are     *)
(* written with comprehensions, SelectSeq and divide-and-conquer           *)
(* recursion rather than with a recursion per character.                   *)
(***************************************************************************)
EXTENDS Integers, Sequences, FiniteSets, TLC

\* ------------------------------------------------------------------ values

\* JavaScript null, for ContextDocument | null, Date | null, string | null:
\* an optional value is <<>> (null) or <<v>>.
Null == <<>>

Some(v) == <<v>>

\* undefined, for a chunk's optional section title.  section.title || undefined
\* maps the empty title to undefined, so a defined title is never empty and the
\* empty string stands for undefined.
Undefined == <<>>

Min(a, b) == IF a <= b THEN a ELSE b

Max(a, b) == IF a >= b THEN a ELSE b

MinOf(S) == CHOOSE x \in S : \A y \in S : x <= y

MaxOf(S) == CHOOSE x \in S : \A y \in S : x >= y

\* ------------------------------------------------------------- characters

LowerLetters == <<"a", "b", "c", "d", "e", "f", "g", "h", "i", "j", "k", "l", "m", "n", "o", "p", "q", "r", "s", "t", "u", "v", "w", "x", "y", "z">>

UpperLetters == <<"A", "B", "C", "D", "E", "F", "G", "H", "I", "J", "K", "L", "M", "N", "O", "P", "Q", "R", "S", "T", "U", "V", "W", "X", "Y", "Z">>

DigitChars == {"0", "1", "2", "3", "4", "5", "6", "7", "8", "9"}

\* A character that a string of this module cannot hold as itself is written
\* as the name of its UTF-16 code unit, "U+" and four hexadecimal digits:
\* "U+000B" is the vertical tab, "U+00C9" is the capital E with acute accent.

\* The white space of the regular expression class \s and of String.trim
\* beyond blank, \t, \n, \r and \f: the vertical tab, the no-break space, the
\* Unicode space separators, the line and paragraph separators and the byte
\* order mark.
UnicodeSpaces ==
  {"U+000B", "U+00A0", "U+1680", "U+2000", "U+2001", "U+2002", "U+2003",
   "U+2004", "U+2005", "U+2006", "U+2007", "U+2008", "U+2009", "U+200A",
   "U+2028", "U+2029", "U+202F", "U+205F", "U+3000", "U+FEFF"}

\* The characters the regular expression class \s and String.trim treat as
\* white space.
WhiteSpace == {" ", "\t", "\n", "\r", "\f"} \cup UnicodeSpaces

\* The regular expression class \w: [A-Za-z0-9_].
WordChars ==
  {LowerLetters[i] : i \in DOMAIN LowerLetters} \cup
  {UpperLetters[i] : i \in DOMAIN UpperLetters} \cup DigitChars \cup {"_"}

\* The backtick character, which a TLA+ string cannot hold.
Backtick == "backtick"

\* The class of extractKeywords' first replace: # * backtick _ [ ] ( ).
MarkdownChars == {"#", "*", Backtick, "_", "[", "]", "(", ")"}

\* The code units of UTF-16 are numbered as in the standard, 0 to \HFFFF
\* (a number written \H and hexadecimal digits is in base 16), and the
\* characters beyond \HFFFF take two of them, a surrogate pair.

\* The value of each hexadecimal digit.
HexValue ==
  [d \in {SubSeq("0123456789ABCDEF", k, k) : k \in 1..16} |->
     (CHOOSE k \in 1..16 : SubSeq("0123456789ABCDEF", k, k) = d) - 1]

\* The number written in a text as so many hexadecimal digits from place at,
\* hex giving the value of a digit.
RECURSIVE hexNumber(_, _, _, _)
hexNumber(text, at, digits, hex) ==
  IF digits = 0 THEN 0
  ELSE (hexNumber(text, at, digits - 1, hex) * 16)
         + hex[SubSeq(text, at + digits - 1, at + digits - 1)]

\* The number n written as so many hexadecimal digits.
RECURSIVE hexName(_, _)
hexName(n, digits) ==
  IF digits = 0 THEN ""
  ELSE hexName(n \div 16, digits - 1)
         \o SubSeq("0123456789ABCDEF", (n % 16) + 1, (n % 16) + 1)

\* The code unit n as a character of this module: itself from U+0020 to
\* U+007E (the text holds them in order, with a blank in the place of the
\* backtick), otherwise its name.
codeUnit(n) ==
  IF n = \H60 THEN Backtick
  ELSE IF n \in \H20..\H7E
  THEN SubSeq(" !\"#$%&'()*+,-./0123456789:;<=>?@ABCDEFGHIJKLMN"
              \o "OPQRSTUVWXYZ[\\]^_ abcdefghijklmnopqrstuvwxyz{|}~",
              n - \H1F, n - \H1F)
  ELSE IF n = 9 THEN "\t"
  ELSE IF n = 10 THEN "\n"
  ELSE IF n = 12 THEN "\f"
  ELSE IF n = 13 THEN "\r"
  ELSE "U+" \o hexName(n, 4)

\* The characters of the code units with the given numbers.
unitsOf(numbers) == [k \in DOMAIN numbers |-> codeUnit(numbers[k])]

\* The code units of the character with code point cp: one, or the
\* surrogate pair of a code point beyond \HFFFF.
codeUnits(cp) ==
  unitsOf(IF cp < \H10000 THEN <<cp>>
          ELSE <<\HD800 + ((cp - \H10000) \div \H400),
                 \HDC00 + ((cp - \H10000) % \H400)>>)

\* The function that maps p[1] to p[2] for the pairs p.
functionOf(pairs) ==
  [c \in {p[1] : p \in pairs} |-> (CHOOSE p \in pairs : p[1] = c)[2]]

\* The numbers of the ASCII characters.
AsciiNumber == functionOf({<<codeUnit(n), n>> : n \in 0..\H7F})

\* The ranges <<first, last>> of code points of a table that holds one
\* first-last every 12 places, in hexadecimal.
rangesOf(table, hex) ==
  {<<hexNumber(table, (12 * k) + 1, 5, hex),
     hexNumber(table, (12 * k) + 7, 5, hex)>> :
     k \in 0..((Len(table) \div 12) - 1)}

\* The mappings <<first, last, step, lower>> of a table that holds one
\* first-last/step>lower every 20 places, in hexadecimal.
mappingsOf(table, hex) ==
  {<<hexNumber(table, (20 * k) + 1, 5, hex),
     hexNumber(table, (20 * k) + 7, 5, hex),
     hexNumber(table, (20 * k) + 13, 1, hex),
     hexNumber(table, (20 * k) + 15, 5, hex)>> :
     k \in 0..((Len(table) \div 20) - 1)}

\* The lower case mapping of String.prototype.toLowerCase, which is that of
\* the Unicode character database (UnicodeData.txt, field 13), here with the
\* letters of Unicode 17.0.  The mapping <<first, last, step, lower>> says
\* that the code points first, first + step, ..., last are lowered to lower,
\* lower + step, ...  U+0130 is apart (toLowerCaseAt).
LowerCase ==
  mappingsOf(
    "00041-0005A/1>00061 000C0-000D6/1>000E0 000D8-000DE/1>000F8 "
    \o "00100-0012E/2>00101 00132-00136/2>00133 00139-00147/2>0013A "
    \o "0014A-00176/2>0014B 00178-00178/1>000FF 00179-0017D/2>0017A "
    \o "00181-00181/1>00253 00182-00184/2>00183 00186-00186/1>00254 "
    \o "00187-00187/1>00188 00189-0018A/1>00256 0018B-0018B/1>0018C "
    \o "0018E-0018E/1>001DD 0018F-0018F/1>00259 00190-00190/1>0025B "
    \o "00191-00191/1>00192 00193-00193/1>00260 00194-00194/1>00263 "
    \o "00196-00196/1>00269 00197-00197/1>00268 00198-00198/1>00199 "
    \o "0019C-0019C/1>0026F 0019D-0019D/1>00272 0019F-0019F/1>00275 "
    \o "001A0-001A4/2>001A1 001A6-001A6/1>00280 001A7-001A7/1>001A8 "
    \o "001A9-001A9/1>00283 001AC-001AC/1>001AD 001AE-001AE/1>00288 "
    \o "001AF-001AF/1>001B0 001B1-001B2/1>0028A 001B3-001B5/2>001B4 "
    \o "001B7-001B7/1>00292 001B8-001B8/1>001B9 001BC-001BC/1>001BD "
    \o "001C4-001C4/1>001C6 001C5-001C5/1>001C6 001C7-001C7/1>001C9 "
    \o "001C8-001C8/1>001C9 001CA-001CA/1>001CC 001CB-001DB/2>001CC "
    \o "001DE-001EE/2>001DF 001F1-001F1/1>001F3 001F2-001F4/2>001F3 "
    \o "001F6-001F6/1>00195 001F7-001F7/1>001BF 001F8-0021E/2>001F9 "
    \o "00220-00220/1>0019E 00222-00232/2>00223 0023A-0023A/1>02C65 "
    \o "0023B-0023B/1>0023C 0023D-0023D/1>0019A 0023E-0023E/1>02C66 "
    \o "00241-00241/1>00242 00243-00243/1>00180 00244-00244/1>00289 "
    \o "00245-00245/1>0028C 00246-0024E/2>00247 00370-00372/2>00371 "
    \o "00376-00376/1>00377 0037F-0037F/1>003F3 00386-00386/1>003AC "
    \o "00388-0038A/1>003AD 0038C-0038C/1>003CC 0038E-0038F/1>003CD "
    \o "00391-003A1/1>003B1 003A3-003AB/1>003C3 003CF-003CF/1>003D7 "
    \o "003D8-003EE/2>003D9 003F4-003F4/1>003B8 003F7-003F7/1>003F8 "
    \o "003F9-003F9/1>003F2 003FA-003FA/1>003FB 003FD-003FF/1>0037B "
    \o "00400-0040F/1>00450 00410-0042F/1>00430 00460-00480/2>00461 "
    \o "0048A-004BE/2>0048B 004C0-004C0/1>004CF 004C1-004CD/2>004C2 "
    \o "004D0-0052E/2>004D1 00531-00556/1>00561 010A0-010C5/1>02D00 "
    \o "010C7-010C7/1>02D27 010CD-010CD/1>02D2D 013A0-013EF/1>0AB70 "
    \o "013F0-013F5/1>013F8 01C89-01C89/1>01C8A 01C90-01CBA/1>010D0 "
    \o "01CBD-01CBF/1>010FD 01E00-01E94/2>01E01 01E9E-01E9E/1>000DF "
    \o "01EA0-01EFE/2>01EA1 01F08-01F0F/1>01F00 01F18-01F1D/1>01F10 "
    \o "01F28-01F2F/1>01F20 01F38-01F3F/1>01F30 01F48-01F4D/1>01F40 "
    \o "01F59-01F5F/2>01F51 01F68-01F6F/1>01F60 01F88-01F8F/1>01F80 "
    \o "01F98-01F9F/1>01F90 01FA8-01FAF/1>01FA0 01FB8-01FB9/1>01FB0 "
    \o "01FBA-01FBB/1>01F70 01FBC-01FBC/1>01FB3 01FC8-01FCB/1>01F72 "
    \o "01FCC-01FCC/1>01FC3 01FD8-01FD9/1>01FD0 01FDA-01FDB/1>01F76 "
    \o "01FE8-01FE9/1>01FE0 01FEA-01FEB/1>01F7A 01FEC-01FEC/1>01FE5 "
    \o "01FF8-01FF9/1>01F78 01FFA-01FFB/1>01F7C 01FFC-01FFC/1>01FF3 "
    \o "02126-02126/1>003C9 0212A-0212A/1>0006B 0212B-0212B/1>000E5 "
    \o "02132-02132/1>0214E 02160-0216F/1>02170 02183-02183/1>02184 "
    \o "024B6-024CF/1>024D0 02C00-02C2F/1>02C30 02C60-02C60/1>02C61 "
    \o "02C62-02C62/1>0026B 02C63-02C63/1>01D7D 02C64-02C64/1>0027D "
    \o "02C67-02C6B/2>02C68 02C6D-02C6D/1>00251 02C6E-02C6E/1>00271 "
    \o "02C6F-02C6F/1>00250 02C70-02C70/1>00252 02C72-02C72/1>02C73 "
    \o "02C75-02C75/1>02C76 02C7E-02C7F/1>0023F 02C80-02CE2/2>02C81 "
    \o "02CEB-02CED/2>02CEC 02CF2-02CF2/1>02CF3 0A640-0A66C/2>0A641 "
    \o "0A680-0A69A/2>0A681 0A722-0A72E/2>0A723 0A732-0A76E/2>0A733 "
    \o "0A779-0A77B/2>0A77A 0A77D-0A77D/1>01D79 0A77E-0A786/2>0A77F "
    \o "0A78B-0A78B/1>0A78C 0A78D-0A78D/1>00265 0A790-0A792/2>0A791 "
    \o "0A796-0A7A8/2>0A797 0A7AA-0A7AA/1>00266 0A7AB-0A7AB/1>0025C "
    \o "0A7AC-0A7AC/1>00261 0A7AD-0A7AD/1>0026C 0A7AE-0A7AE/1>0026A "
    \o "0A7B0-0A7B0/1>0029E 0A7B1-0A7B1/1>00287 0A7B2-0A7B2/1>0029D "
    \o "0A7B3-0A7B3/1>0AB53 0A7B4-0A7C2/2>0A7B5 0A7C4-0A7C4/1>0A794 "
    \o "0A7C5-0A7C5/1>00282 0A7C6-0A7C6/1>01D8E 0A7C7-0A7C9/2>0A7C8 "
    \o "0A7CB-0A7CB/1>00264 0A7CC-0A7DA/2>0A7CD 0A7DC-0A7DC/1>0019B "
    \o "0A7F5-0A7F5/1>0A7F6 0FF21-0FF3A/1>0FF41 10400-10427/1>10428 "
    \o "104B0-104D3/1>104D8 10570-1057A/1>10597 1057C-1058A/1>105A3 "
    \o "1058C-10592/1>105B3 10594-10595/1>105BB 10C80-10CB2/1>10CC0 "
    \o "10D50-10D65/1>10D70 118A0-118BF/1>118C0 16E40-16E5F/1>16E60 "
    \o "16EA0-16EB8/1>16EBB 1E900-1E921/1>1E922 ",
    HexValue)

\* The characters with the property Cased of the Unicode character database
\* (DerivedCoreProperties.txt of Unicode 17.0), as ranges of code points.
\* U+0294 and U+0295 are letters without case; U+A7F1 is cased.
Cased ==
  rangesOf(
    "00041-0005A 00061-0007A 000AA-000AA 000B5-000B5 000BA-000BA 000C0-000D6 "
    \o "000D8-000F6 000F8-001BA 001BC-001BF 001C4-00293 00296-002B8 002C0-002C1 "
    \o "002E0-002E4 00345-00345 00370-00373 00376-00377 0037A-0037D 0037F-0037F "
    \o "00386-00386 00388-0038A 0038C-0038C 0038E-003A1 003A3-003F5 003F7-00481 "
    \o "0048A-0052F 00531-00556 00560-00588 010A0-010C5 010C7-010C7 010CD-010CD "
    \o "010D0-010FA 010FC-010FF 013A0-013F5 013F8-013FD 01C80-01C8A 01C90-01CBA "
    \o "01CBD-01CBF 01D00-01DBF 01E00-01F15 01F18-01F1D 01F20-01F45 01F48-01F4D "
    \o "01F50-01F57 01F59-01F59 01F5B-01F5B 01F5D-01F5D 01F5F-01F7D 01F80-01FB4 "
    \o "01FB6-01FBC 01FBE-01FBE 01FC2-01FC4 01FC6-01FCC 01FD0-01FD3 01FD6-01FDB "
    \o "01FE0-01FEC 01FF2-01FF4 01FF6-01FFC 02071-02071 0207F-0207F 02090-0209C "
    \o "02102-02102 02107-02107 0210A-02113 02115-02115 02119-0211D 02124-02124 "
    \o "02126-02126 02128-02128 0212A-0212D 0212F-02134 02139-02139 0213C-0213F "
    \o "02145-02149 0214E-0214E 02160-0217F 02183-02184 024B6-024E9 02C00-02CE4 "
    \o "02CEB-02CEE 02CF2-02CF3 02D00-02D25 02D27-02D27 02D2D-02D2D 0A640-0A66D "
    \o "0A680-0A69D 0A722-0A787 0A78B-0A78E 0A790-0A7DC 0A7F1-0A7F6 0A7F8-0A7FA "
    \o "0AB30-0AB5A 0AB5C-0AB69 0AB70-0ABBF 0FB00-0FB06 0FB13-0FB17 0FF21-0FF3A "
    \o "0FF41-0FF5A 10400-1044F 104B0-104D3 104D8-104FB 10570-1057A 1057C-1058A "
    \o "1058C-10592 10594-10595 10597-105A1 105A3-105B1 105B3-105B9 105BB-105BC "
    \o "10780-10780 10783-10785 10787-107B0 107B2-107BA 10C80-10CB2 10CC0-10CF2 "
    \o "10D50-10D65 10D70-10D85 118A0-118DF 16E40-16E7F 16EA0-16EB8 16EBB-16ED3 "
    \o "1D400-1D454 1D456-1D49C 1D49E-1D49F 1D4A2-1D4A2 1D4A5-1D4A6 1D4A9-1D4AC "
    \o "1D4AE-1D4B9 1D4BB-1D4BB 1D4BD-1D4C3 1D4C5-1D505 1D507-1D50A 1D50D-1D514 "
    \o "1D516-1D51C 1D51E-1D539 1D53B-1D53E 1D540-1D544 1D546-1D546 1D54A-1D550 "
    \o "1D552-1D6A5 1D6A8-1D6C0 1D6C2-1D6DA 1D6DC-1D6FA 1D6FC-1D714 1D716-1D734 "
    \o "1D736-1D74E 1D750-1D76E 1D770-1D788 1D78A-1D7A8 1D7AA-1D7C2 1D7C4-1D7CB "
    \o "1DF00-1DF09 1DF0B-1DF1E 1DF25-1DF2A 1E030-1E06D 1E900-1E943 1F130-1F149 "
    \o "1F150-1F169 1F170-1F189 ",
    HexValue)

\* The characters with the property Case_Ignorable (DerivedCoreProperties.txt
\* of Unicode 17.0).
CaseIgnorable ==
  rangesOf(
    "00027-00027 0002E-0002E 0003A-0003A 0005E-0005E 00060-00060 000A8-000A8 "
    \o "000AD-000AD 000AF-000AF 000B4-000B4 000B7-000B8 002B0-0036F 00374-00375 "
    \o "0037A-0037A 00384-00385 00387-00387 00483-00489 00559-00559 0055F-0055F "
    \o "00591-005BD 005BF-005BF 005C1-005C2 005C4-005C5 005C7-005C7 005F4-005F4 "
    \o "00600-00605 00610-0061A 0061C-0061C 00640-00640 0064B-0065F 00670-00670 "
    \o "006D6-006DD 006DF-006E8 006EA-006ED 0070F-0070F 00711-00711 00730-0074A "
    \o "007A6-007B0 007EB-007F5 007FA-007FA 007FD-007FD 00816-0082D 00859-0085B "
    \o "00888-00888 00890-00891 00897-0089F 008C9-00902 0093A-0093A 0093C-0093C "
    \o "00941-00948 0094D-0094D 00951-00957 00962-00963 00971-00971 00981-00981 "
    \o "009BC-009BC 009C1-009C4 009CD-009CD 009E2-009E3 009FE-009FE 00A01-00A02 "
    \o "00A3C-00A3C 00A41-00A42 00A47-00A48 00A4B-00A4D 00A51-00A51 00A70-00A71 "
    \o "00A75-00A75 00A81-00A82 00ABC-00ABC 00AC1-00AC5 00AC7-00AC8 00ACD-00ACD "
    \o "00AE2-00AE3 00AFA-00AFF 00B01-00B01 00B3C-00B3C 00B3F-00B3F 00B41-00B44 "
    \o "00B4D-00B4D 00B55-00B56 00B62-00B63 00B82-00B82 00BC0-00BC0 00BCD-00BCD "
    \o "00C00-00C00 00C04-00C04 00C3C-00C3C 00C3E-00C40 00C46-00C48 00C4A-00C4D "
    \o "00C55-00C56 00C62-00C63 00C81-00C81 00CBC-00CBC 00CBF-00CBF 00CC6-00CC6 "
    \o "00CCC-00CCD 00CE2-00CE3 00D00-00D01 00D3B-00D3C 00D41-00D44 00D4D-00D4D "
    \o "00D62-00D63 00D81-00D81 00DCA-00DCA 00DD2-00DD4 00DD6-00DD6 00E31-00E31 "
    \o "00E34-00E3A 00E46-00E4E 00EB1-00EB1 00EB4-00EBC 00EC6-00EC6 00EC8-00ECE "
    \o "00F18-00F19 00F35-00F35 00F37-00F37 00F39-00F39 00F71-00F7E 00F80-00F84 "
    \o "00F86-00F87 00F8D-00F97 00F99-00FBC 00FC6-00FC6 0102D-01030 01032-01037 "
    \o "01039-0103A 0103D-0103E 01058-01059 0105E-01060 01071-01074 01082-01082 "
    \o "01085-01086 0108D-0108D 0109D-0109D 010FC-010FC 0135D-0135F 01712-01714 "
    \o "01732-01733 01752-01753 01772-01773 017B4-017B5 017B7-017BD 017C6-017C6 "
    \o "017C9-017D3 017D7-017D7 017DD-017DD 0180B-0180F 01843-01843 01885-01886 "
    \o "018A9-018A9 01920-01922 01927-01928 01932-01932 01939-0193B 01A17-01A18 "
    \o "01A1B-01A1B 01A56-01A56 01A58-01A5E 01A60-01A60 01A62-01A62 01A65-01A6C "
    \o "01A73-01A7C 01A7F-01A7F 01AA7-01AA7 01AB0-01ADD 01AE0-01AEB 01B00-01B03 "
    \o "01B34-01B34 01B36-01B3A 01B3C-01B3C 01B42-01B42 01B6B-01B73 01B80-01B81 "
    \o "01BA2-01BA5 01BA8-01BA9 01BAB-01BAD 01BE6-01BE6 01BE8-01BE9 01BED-01BED "
    \o "01BEF-01BF1 01C2C-01C33 01C36-01C37 01C78-01C7D 01CD0-01CD2 01CD4-01CE0 "
    \o "01CE2-01CE8 01CED-01CED 01CF4-01CF4 01CF8-01CF9 01D2C-01D6A 01D78-01D78 "
    \o "01D9B-01DFF 01FBD-01FBD 01FBF-01FC1 01FCD-01FCF 01FDD-01FDF 01FED-01FEF "
    \o "01FFD-01FFE 0200B-0200F 02018-02019 02024-02024 02027-02027 0202A-0202E "
    \o "02060-02064 02066-0206F 02071-02071 0207F-0207F 02090-0209C 020D0-020F0 "
    \o "02C7C-02C7D 02CEF-02CF1 02D6F-02D6F 02D7F-02D7F 02DE0-02DFF 02E2F-02E2F "
    \o "03005-03005 0302A-0302D 03031-03035 0303B-0303B 03099-0309E 030FC-030FE "
    \o "0A015-0A015 0A4F8-0A4FD 0A60C-0A60C 0A66F-0A672 0A674-0A67D 0A67F-0A67F "
    \o "0A69C-0A69F 0A6F0-0A6F1 0A700-0A721 0A770-0A770 0A788-0A78A 0A7F1-0A7F4 "
    \o "0A7F8-0A7F9 0A802-0A802 0A806-0A806 0A80B-0A80B 0A825-0A826 0A82C-0A82C "
    \o "0A8C4-0A8C5 0A8E0-0A8F1 0A8FF-0A8FF 0A926-0A92D 0A947-0A951 0A980-0A982 "
    \o "0A9B3-0A9B3 0A9B6-0A9B9 0A9BC-0A9BD 0A9CF-0A9CF 0A9E5-0A9E6 0AA29-0AA2E "
    \o "0AA31-0AA32 0AA35-0AA36 0AA43-0AA43 0AA4C-0AA4C 0AA70-0AA70 0AA7C-0AA7C "
    \o "0AAB0-0AAB0 0AAB2-0AAB4 0AAB7-0AAB8 0AABE-0AABF 0AAC1-0AAC1 0AADD-0AADD "
    \o "0AAEC-0AAED 0AAF3-0AAF4 0AAF6-0AAF6 0AB5B-0AB5F 0AB69-0AB6B 0ABE5-0ABE5 "
    \o "0ABE8-0ABE8 0ABED-0ABED 0FB1E-0FB1E 0FBB2-0FBC2 0FE00-0FE0F 0FE13-0FE13 "
    \o "0FE20-0FE2F 0FE52-0FE52 0FE55-0FE55 0FEFF-0FEFF 0FF07-0FF07 0FF0E-0FF0E "
    \o "0FF1A-0FF1A 0FF3E-0FF3E 0FF40-0FF40 0FF70-0FF70 0FF9E-0FF9F 0FFE3-0FFE3 "
    \o "0FFF9-0FFFB 101FD-101FD 102E0-102E0 10376-1037A 10780-10785 10787-107B0 "
    \o "107B2-107BA 10A01-10A03 10A05-10A06 10A0C-10A0F 10A38-10A3A 10A3F-10A3F "
    \o "10AE5-10AE6 10D24-10D27 10D4E-10D4E 10D69-10D6D 10D6F-10D6F 10EAB-10EAC "
    \o "10EC5-10EC5 10EFA-10EFF 10F46-10F50 10F82-10F85 11001-11001 11038-11046 "
    \o "11070-11070 11073-11074 1107F-11081 110B3-110B6 110B9-110BA 110BD-110BD "
    \o "110C2-110C2 110CD-110CD 11100-11102 11127-1112B 1112D-11134 11173-11173 "
    \o "11180-11181 111B6-111BE 111C9-111CC 111CF-111CF 1122F-11231 11234-11234 "
    \o "11236-11237 1123E-1123E 11241-11241 112DF-112DF 112E3-112EA 11300-11301 "
    \o "1133B-1133C 11340-11340 11366-1136C 11370-11374 113BB-113C0 113CE-113CE "
    \o "113D0-113D0 113D2-113D2 113E1-113E2 11438-1143F 11442-11444 11446-11446 "
    \o "1145E-1145E 114B3-114B8 114BA-114BA 114BF-114C0 114C2-114C3 115B2-115B5 "
    \o "115BC-115BD 115BF-115C0 115DC-115DD 11633-1163A 1163D-1163D 1163F-11640 "
    \o "116AB-116AB 116AD-116AD 116B0-116B5 116B7-116B7 1171D-1171D 1171F-1171F "
    \o "11722-11725 11727-1172B 1182F-11837 11839-1183A 1193B-1193C 1193E-1193E "
    \o "11943-11943 119D4-119D7 119DA-119DB 119E0-119E0 11A01-11A0A 11A33-11A38 "
    \o "11A3B-11A3E 11A47-11A47 11A51-11A56 11A59-11A5B 11A8A-11A96 11A98-11A99 "
    \o "11B60-11B60 11B62-11B64 11B66-11B66 11C30-11C36 11C38-11C3D 11C3F-11C3F "
    \o "11C92-11CA7 11CAA-11CB0 11CB2-11CB3 11CB5-11CB6 11D31-11D36 11D3A-11D3A "
    \o "11D3C-11D3D 11D3F-11D45 11D47-11D47 11D90-11D91 11D95-11D95 11D97-11D97 "
    \o "11DD9-11DD9 11EF3-11EF4 11F00-11F01 11F36-11F3A 11F40-11F40 11F42-11F42 "
    \o "11F5A-11F5A 13430-13440 13447-13455 1611E-16129 1612D-1612F 16AF0-16AF4 "
    \o "16B30-16B36 16B40-16B43 16D40-16D42 16D6B-16D6C 16F4F-16F4F 16F8F-16F9F "
    \o "16FE0-16FE1 16FE3-16FE4 16FF2-16FF3 1AFF0-1AFF3 1AFF5-1AFFB 1AFFD-1AFFE "
    \o "1BC9D-1BC9E 1BCA0-1BCA3 1CF00-1CF2D 1CF30-1CF46 1D167-1D169 1D173-1D182 "
    \o "1D185-1D18B 1D1AA-1D1AD 1D242-1D244 1DA00-1DA36 1DA3B-1DA6C 1DA75-1DA75 "
    \o "1DA84-1DA84 1DA9B-1DA9F 1DAA1-1DAAF 1E000-1E006 1E008-1E018 1E01B-1E021 "
    \o "1E023-1E024 1E026-1E02A 1E030-1E06D 1E08F-1E08F 1E130-1E13D 1E2AE-1E2AE "
    \o "1E2EC-1E2EF 1E4EB-1E4EF 1E5EE-1E5EF 1E6E3-1E6E3 1E6E6-1E6E6 1E6EE-1E6EF "
    \o "1E6F5-1E6F5 1E6FF-1E6FF 1E8D0-1E8D6 1E944-1E94B 1F3FB-1F3FF E0001-E0001 "
    \o "E0020-E007F E0100-E01EF ",
    HexValue)

\* The code point cp is in one of the ranges.
inRanges(cp, ranges) == \E r \in ranges : r[1] <= cp /\ cp <= r[2]

\* The code point cp is one of those the mapping m lowers, and what it is
\* lowered to.
lowers(m, cp) == m[1] <= cp /\ cp <= m[2] /\ ((cp - m[1]) % m[3]) = 0

loweredBy(m, cp) == m[4] + (cp - m[1])

\* The lower case of the character with code point cp by the mappings, when
\* it is one character.
lowerCodePoint(cp, mappings) ==
  IF \E m \in mappings : lowers(m, cp)
  THEN loweredBy(CHOOSE m \in mappings : lowers(m, cp), cp)
  ELSE cp

\* The lower case of the ASCII characters.
AsciiLower ==
  functionOf({unitsOf(<<n, lowerCodePoint(n, LowerCase)>>) : n \in 0..\H7F})

\* ---------------------------------------------------------------- strings

Indices(s) == [i \in 1..Len(s) |-> i]

\* The number of a code unit: of an ASCII character by the function ascii,
\* of any other from the four hexadecimal digits of its name.
unitNumber(c, ascii, hex) ==
  IF c \in DOMAIN ascii THEN ascii[c] ELSE hexNumber(c, 3, 4, hex)

\* The numbers of the code units of s.
unitNumbers(s) ==
  [i \in 1..Len(s) |-> unitNumber(s[i], AsciiNumber, HexValue)]

\* The code unit at i of a string, units being the numbers of its code
\* units, is the second of a surrogate pair.
secondOfPair(units, i) ==
  /\ i > 1
  /\ units[i] \in \HDC00..\HDFFF
  /\ units[i - 1] \in \HD800..\HDBFF

\* For each code unit of a string the code point of the character it belongs
\* to: that of the surrogate pair it is the first or the second unit of, or
\* its own number.
codePoints(units) ==
  [i \in DOMAIN units |->
     IF i < Len(units) /\ secondOfPair(units, i + 1)
     THEN \H10000 + ((units[i] - \HD800) * \H400) + (units[i + 1] - \HDC00)
     ELSE IF secondOfPair(units, i)
     THEN \H10000 + ((units[i - 1] - \HD800) * \H400) + (units[i] - \HDC00)
     ELSE units[i]]

\* The places of a string, points being its code points, that hold a
\* case-ignorable character, and those that hold a cased letter.
caseIgnorable(points) ==
  {i \in DOMAIN points : inRanges(points[i], CaseIgnorable)}

casedLetters(points, ignorable) ==
  {i \in DOMAIN points : inRanges(points[i], Cased)} \ ignorable

\* Final_Sigma: the place i comes after a cased letter and any number of
\* case-ignorable characters, and is not followed by case-ignorable
\* characters and then a cased letter.
finalSigma(i, letters, ignorable) ==
  /\ \E j \in letters : j < i /\ (j + 1)..(i - 1) \subseteq ignorable
  /\ ~ \E j \in letters : j > i /\ (i + 1)..(j - 1) \subseteq ignorable

finalSigmaIn(points, i, ignorable) ==
  finalSigma(i, casedLetters(points, ignorable), ignorable)

isFinalSigma(points, i) == finalSigmaIn(points, i, caseIgnorable(points))

\* The code units that stand for the code unit c, the first or the second
\* (place) of a character of code point cp, when the character is lowered to
\* the code point lower.
lowerUnits(c, place, cp, lower) ==
  IF lower = cp THEN <<c>> ELSE <<codeUnits(lower)[place]>>

\* The code units toLowerCase gives for the code unit at i of s outside
\* ASCII, units being the numbers of the code units of s and points its
\* code points.  The capital I with dot above (U+0130) becomes two code
\* units, i and the combining dot above (U+0307); the capital sigma (U+03A3)
\* becomes the final sigma (U+03C2) at the end of a word and the small sigma
\* elsewhere (SpecialCasing.txt).
toLowerCaseAt(s, units, points, i) ==
  IF s[i] = "U+0130" THEN <<"i", "U+0307">>
  ELSE IF s[i] = "U+03A3" /\ isFinalSigma(points, i) THEN <<"U+03C2">>
  ELSE lowerUnits(s[i], IF secondOfPair(units, i) THEN 2 ELSE 1,
                  points[i], lowerCodePoint(points[i], LowerCase))

\* The code units toLowerCase gives for each code unit of s, ascii being the
\* lower case of the ASCII characters.
toLowerCaseUnits(s, units, ascii) ==
  [i \in 1..Len(s) |->
     IF s[i] \in DOMAIN ascii THEN <<ascii[s[i]]>>
     ELSE toLowerCaseAt(s, units, codePoints(units), i)]

\* pieces[lo] pieces[lo+1] ... pieces[hi], by halving.
RECURSIVE concatRange(_, _, _)
concatRange(pieces, lo, hi) ==
  IF lo > hi THEN <<>>
  ELSE IF lo = hi THEN pieces[lo]
  ELSE LET mid == (lo + hi) \div 2
       IN  concatRange(pieces, lo, mid) \o concatRange(pieces, mid + 1, hi)

\* The pieces one after the other.
concat(pieces) ==
  IF \A i \in DOMAIN pieces : Len(pieces[i]) = 1
  THEN [i \in DOMAIN pieces |-> pieces[i][1]]
  ELSE concatRange(pieces, 1, Len(pieces))

\* String.prototype.toLowerCase
toLowerCase(s) == concat(toLowerCaseUnits(s, unitNumbers(s), AsciiLower))

\* String.prototype.trim
trim(s) ==
  LET keep == {i \in 1..Len(s) : s[i] \notin WhiteSpace}
  IN  IF keep = {} THEN <<>> ELSE SubSeq(s, MinOf(keep), MaxOf(keep))

\* s.replace(/[class]/g, ' ')
replaceWithSpace(s, class) ==
  [i \in 1..Len(s) |-> IF s[i] \in class THEN " " ELSE s[i]]

\* s.replace(/[^\w\s]/g, ' ')
replaceNonWord(s) ==
  [i \in 1..Len(s) |->
     IF s[i] \in WordChars \/ s[i] \in WhiteSpace THEN s[i] ELSE " "]

\* s.replace(/\s+/g, ' '): every maximal run of white space becomes one space.
collapseWhiteSpace(s) ==
  LET kept == SelectSeq(Indices(s),
                LAMBDA i : s[i] \notin WhiteSpace
                           \/ i = 1 \/ s[i - 1] \notin WhiteSpace)
  IN  [k \in 1..Len(kept) |->
         IF s[kept[k]] \in WhiteSpace THEN " " ELSE s[kept[k]]]

\* s.split(c) for a one-character separator set: a piece between every two
\* neighbouring separators, empty pieces included.
splitOn(s, seps) ==
  LET at == SelectSeq(Indices(s), LAMBDA i : s[i] \in seps)
      n  == Len(at)
  IN  [k \in 1..(n + 1) |->
         SubSeq(s, IF k = 1 THEN 1 ELSE at[k - 1] + 1,
                   IF k = n + 1 THEN Len(s) ELSE at[k] - 1)]

\* s.split(/\s+/): split at every maximal run of white space.  A leading run
\* leaves an empty first piece and a trailing run an empty last piece.
splitWhiteSpace(s) ==
  LET pieces == splitOn(s, WhiteSpace)
      n      == Len(pieces)
      kept   == SelectSeq(Indices(pieces),
                  LAMBDA k : k = 1 \/ k = n \/ pieces[k] # <<>>)
  IN  [k \in 1..Len(kept) |-> pieces[kept[k]]]

\* parts.slice(from, to) with 0-based from and exclusive to, as Array.slice.
slice(a, from, to) == SubSeq(a, from + 1, Min(to, Len(a)))

\* parts[lo] sep parts[lo+1] sep ... parts[hi], by halving.
RECURSIVE joinRange(_, _, _, _)
joinRange(parts, sep, lo, hi) ==
  IF lo > hi THEN <<>>
  ELSE IF lo = hi THEN parts[lo]
  ELSE LET mid == (lo + hi) \div 2
       IN  joinRange(parts, sep, lo, mid) \o sep \o
           joinRange(parts, sep, mid + 1, hi)

\* parts.join(sep)
join(parts, sep) == joinRange(parts, sep, 1, Len(parts))

\* s.includes(sub)
includes(s, sub) ==
  \E start \in 0..(Len(s) - Len(sub)) :
     SubSeq(s, start + 1, start + Len(sub)) = sub

\* A variant of unique that keeps the repetitions.
withRepetitions(a) == a

\* [...new Set(a)]: the distinct elements in order of first occurrence.
unique(a) ==
  LET kept == SelectSeq(Indices(a),
                LAMBDA i : \A j \in 1..(i - 1) : a[j] # a[i])
  IN  [k \in 1..Len(kept) |-> a[kept[k]]]

\* ------------------------------------------------------- ContextConfig.ts

CHUNK_SIZE == 500

CHUNK_OVERLAP == 50

MIN_KEYWORD_LENGTH == 3

MAX_CHUNKS_PER_QUERY == 5

\* uniqueWords.slice(0, 20)
MAX_KEYWORDS == 20

\* Math.min(2, MAX_CHUNKS_PER_QUERY): the fallback count.
FALLBACK_CHUNKS == 2

\* chunk.relevanceScore > 0.05, as the fraction ThresholdNum / ThresholdDen.
ThresholdNum == 1

ThresholdDen == 20

\* ------------------------------------------------------- ContextProcessor

stopWords ==
  <<
     <<"t", "h", "e">>, <<"a">>, <<"a", "n">>, <<"a", "n", "d">>,
     <<"o", "r">>, <<"b", "u", "t">>, <<"i", "n">>, <<"o", "n">>,
     <<"a", "t">>, <<"t", "o">>, <<"f", "o", "r">>, <<"o", "f">>,
     <<"w", "i", "t", "h">>, <<"b", "y">>, <<"f", "r", "o", "m">>, <<"u", "p">>,
     <<"a", "b", "o", "u", "t">>, <<"i", "n", "t", "o">>, <<"t", "h", "r", "o", "u", "g", "h">>, <<"d", "u", "r", "i", "n", "g">>,
     <<"b", "e", "f", "o", "r", "e">>, <<"a", "f", "t", "e", "r">>, <<"a", "b", "o", "v", "e">>, <<"b", "e", "l", "o", "w">>,
     <<"i", "s">>, <<"a", "r", "e">>, <<"w", "a", "s">>, <<"w", "e", "r", "e">>,
     <<"b", "e">>, <<"b", "e", "e", "n">>, <<"b", "e", "i", "n", "g">>, <<"h", "a", "v", "e">>,
     <<"h", "a", "s">>, <<"h", "a", "d">>, <<"d", "o">>, <<"d", "o", "e", "s">>,
     <<"d", "i", "d">>, <<"w", "i", "l", "l">>, <<"w", "o", "u", "l", "d">>, <<"c", "o", "u", "l", "d">>,
     <<"s", "h", "o", "u", "l", "d">>, <<"m", "a", "y">>, <<"m", "i", "g", "h", "t">>, <<"m", "u", "s", "t">>,
     <<"c", "a", "n">>, <<"t", "h", "i", "s">>, <<"t", "h", "a", "t">>, <<"t", "h", "e", "s", "e">>,
     <<"t", "h", "o", "s", "e">>
  >>

stopWordSet == {stopWords[i] : i \in DOMAIN stopWords}

\* stopWords.includes(word.toLowerCase())
isStopWord(word) == toLowerCase(word) \in stopWordSet

extractKeywords(content) ==
  LET cleanContent ==
        trim(collapseWhiteSpace(replaceNonWord(toLowerCase(
          replaceWithSpace(content, MarkdownChars)))))
      words == SelectSeq(splitOn(cleanContent, {" "}),
                 LAMBDA word : Len(word) >= MIN_KEYWORD_LENGTH
                               /\ ~isStopWord(word))
      uniqueWords == unique(words)
  IN  slice(uniqueWords, 0, MAX_KEYWORDS)

\* A rational relevance score num / den (den > 0), compared exactly.
Score(num, den) == [num |-> num, den |-> den]

scoreGreater(a, b) == a.num * b.den > b.num * a.den

scoreEqual(a, b) == a.num * b.den = b.num * a.den

\* line.match(/^#{1,6}\s+/): one to six # characters at the start of the
\* line, then at least one white space character.
leadingHashes(line) ==
  Cardinality({i \in 1..Len(line) : \A j \in 1..i : line[j] = "#"})

isHeaderLine(line) ==
  LET n == leadingHashes(line)
  IN  n >= 1 /\ n <= 6 /\ Len(line) > n /\ line[n + 1] \in WhiteSpace

\* line.replace(/^#{1,6}\s+/, '').trim() of a header line.
headerTitle(line) ==
  LET rest  == SubSeq(line, leadingHashes(line) + 1, Len(line))
      after == {i \in 1..Len(rest) : rest[i] \notin WhiteSpace}
  IN  trim(IF after = {} THEN <<>>
           ELSE SubSeq(rest, MinOf(after), Len(rest)))

\* lines[from] + '\n' + ... + lines[to] + '\n': what the loop of
\* splitByMarkdownHeaders accumulates over these lines.
linesContent(lines, from, to) ==
  IF from > to THEN <<>>
  ELSE joinRange(lines, <<"\n">>, from, to) \o <<"\n">>

ContentTitle == <<"C", "o", "n", "t", "e", "n", "t">>

\* A variant of splitByMarkdownHeaders that takes the whole document as one
\* section without title.
oneSection(content) == <<[title |-> <<>>, content |-> content \o <<"\n">>]>>

splitByMarkdownHeaders(content) ==
  LET lines   == splitOn(content, {"\n"})
      headers == SelectSeq(Indices(lines), LAMBDA i : isHeaderLine(lines[i]))
      nh      == Len(headers)
      \* The section open before the first header: title '' and the lines so far.
      first   == [title |-> <<>>,
                  content |-> linesContent(lines, 1,
                                IF nh = 0 THEN Len(lines) ELSE headers[1] - 1)]
      headed  == [k \in 1..nh |->
                    [title |-> headerTitle(lines[headers[k]]),
                     content |-> linesContent(lines, headers[k],
                                   IF k = nh THEN Len(lines)
                                   ELSE headers[k + 1] - 1)]]
      all     == <<first>> \o headed
      \* A section is kept when its content is not blank.
      sections == SelectSeq(all, LAMBDA s : trim(s.content) # <<>>)
  IN  IF Len(sections) = 0
      THEN <<[title |-> ContentTitle, content |-> content]>>
      ELSE sections

\* A variant of sectionWindows that stops after the first window.
firstWindowOnly(section) ==
  LET words  == splitWhiteSpace(section.content)
      window == trim(join(slice(words, 0, CHUNK_SIZE), <<" ">>))
  IN  IF Len(window) > 0 THEN <<window>> ELSE <<>>

\* A variant of sectionWindows whose windows follow each other without
\* overlap.
windowsWithoutOverlap(section) ==
  LET words   == splitWhiteSpace(section.content)
      count   == (Len(words) + CHUNK_SIZE - 1) \div CHUNK_SIZE
      windows == [j \in 1..count |->
                    trim(join(slice(words, (j - 1) * CHUNK_SIZE,
                                    j * CHUNK_SIZE), <<" ">>))]
  IN  SelectSeq(windows, LAMBDA chunkContent : Len(chunkContent) > 0)

\* The chunk texts of one section: a window of CHUNK_SIZE words every
\* CHUNK_SIZE - CHUNK_OVERLAP words, each joined with ' ' and trimmed, the
\* empty ones dropped.
sectionWindows(section) ==
  LET words     == splitWhiteSpace(section.content)
      chunkSize == CHUNK_SIZE
      overlap   == CHUNK_OVERLAP
      step      == chunkSize - overlap
      count     == (Len(words) + step - 1) \div step
      windows   == [j \in 1..count |->
                      trim(join(slice(words, (j - 1) * step,
                                      (j - 1) * step + chunkSize), <<" ">>))]
  IN  SelectSeq(windows, LAMBDA chunkContent : Len(chunkContent) > 0)

\* A variant of createChunksFromSection that takes the keywords of a chunk
\* from the title of its section.
chunksKeyedByTitle(section) ==
  LET windows == sectionWindows(section)
  IN  [j \in 1..Len(windows) |->
         [content  |-> windows[j],
          keywords |-> extractKeywords(section.title),
          section  |-> IF section.title # <<>> THEN section.title
                       ELSE Undefined]]

\* createChunksFromSection without the ids, which processContextContent
\* numbers over the whole document.
createChunksFromSection(section) ==
  LET windows == sectionWindows(section)
  IN  [j \in 1..Len(windows) |->
         [content  |-> windows[j],
          keywords |-> extractKeywords(windows[j]),
          section  |-> IF section.title # <<>> THEN section.title
                       ELSE Undefined]]

\* uuid(): the k-th identifier drawn by the gen-th chunking run.  Identifiers
\* of different runs, and of different chunks of one run, differ.
uuid(gen, k) == <<gen, k>>

\* The chunks of all sections, in document order.
sectionChunks(sections) ==
  joinRange([k \in 1..Len(sections) |-> createChunksFromSection(sections[k])],
            <<>>, 1, Len(sections))

\* id: uuid(), drawn chunk by chunk in document order by run gen.
identified(chunks, gen) ==
  [k \in 1..Len(chunks) |->
     [id       |-> uuid(gen, k),
      content  |-> chunks[k].content,
      keywords |-> chunks[k].keywords,
      section  |-> chunks[k].section]]

\* processContextContent(content).  failure: an exception is raised while
\* chunking (uuid() without a random source, for instance); the catch returns
\* the empty list.  gen numbers the run for uuid().
processContextContent(content, gen, failure) ==
  IF failure THEN <<>>
  ELSE identified(sectionChunks(splitByMarkdownHeaders(content)), gen)

\* calculateSimpleRelevanceScore(queryKeywords, chunk): the part of the query
\* keywords that, in lower case, contain a keyword of the chunk in lower case
\* or are contained in one.
calculateSimpleRelevanceScore(queryKeywords, chunk) ==
  IF Len(queryKeywords) = 0 \/ Len(chunk.keywords) = 0
  THEN Score(0, 1)
  ELSE LET commonKeywords ==
             SelectSeq(queryKeywords,
               LAMBDA keyword :
                 \E i \in DOMAIN chunk.keywords :
                    \/ includes(toLowerCase(chunk.keywords[i]),
                                toLowerCase(keyword))
                    \/ includes(toLowerCase(keyword),
                                toLowerCase(chunk.keywords[i])))
       IN  Score(Len(commonKeywords), Len(queryKeywords))

\* scored.sort((a, b) => (b.relevanceScore || 0) - (a.relevanceScore || 0)):
\* descending by score; Array.prototype.sort is stable, so equal scores keep
\* their order.
sortByScore(scored) ==
  LET n == Len(scored)
      before(i, j) ==
        \/ scoreGreater(scored[i].relevanceScore, scored[j].relevanceScore)
        \/ /\ scoreEqual(scored[i].relevanceScore, scored[j].relevanceScore)
           /\ i < j
      rank(i) == 1 + Cardinality({j \in 1..n : before(j, i)})
  IN  [k \in 1..n |-> scored[CHOOSE i \in 1..n : rank(i) = k]]

\* A variant of aboveThreshold that lets the threshold itself through.
atLeastThreshold(score) == score.num * ThresholdDen >= ThresholdNum * score.den

aboveThreshold(score) == score.num * ThresholdDen > ThresholdNum * score.den

\* A variant of selectedChunks whose fallback takes the first chunks without
\* sorting them.
fallbackInDocumentOrder(relevantChunks, scoredChunks) ==
  IF Len(relevantChunks) = 0 /\ Len(scoredChunks) > 0
  THEN slice(scoredChunks, 0, Min(FALLBACK_CHUNKS, MAX_CHUNKS_PER_QUERY))
  ELSE relevantChunks

\* The end of extractRelevantChunks: the chunks above the threshold, or, when
\* there are none, the FALLBACK_CHUNKS best of all the chunks.
selectedChunks(relevantChunks, scoredChunks) ==
  IF Len(relevantChunks) = 0 /\ Len(scoredChunks) > 0
  THEN slice(sortByScore(scoredChunks), 0,
             Min(FALLBACK_CHUNKS, MAX_CHUNKS_PER_QUERY))
  ELSE relevantChunks

\* chunks.map(chunk => ({...chunk, relevanceScore}))
scored(queryKeywords, chunks) ==
  [k \in 1..Len(chunks) |->
     [id       |-> chunks[k].id,
      content  |-> chunks[k].content,
      keywords |-> chunks[k].keywords,
      section  |-> chunks[k].section,
      relevanceScore |->
        calculateSimpleRelevanceScore(queryKeywords, chunks[k])]]

\* .filter(score > relevanceThreshold).sort(by score, descending)
\* .slice(0, MAX_CHUNKS_PER_QUERY)
relevant(scoredChunks) ==
  slice(sortByScore(SelectSeq(scoredChunks,
          LAMBDA chunk : aboveThreshold(chunk.relevanceScore))),
        0, MAX_CHUNKS_PER_QUERY)

selection(scoredChunks) == selectedChunks(relevant(scoredChunks), scoredChunks)

extractRelevantChunks(userQuery, chunks) ==
  selection(scored(extractKeywords(userQuery), chunks))

\* The fixed text before and after the chunks, each carried as one element.
PromptPreamble ==
  <<"[CONTEXT ACTIVE] You have access to the following information about the user:\n\n">>

PromptClosing ==
  <<"\n\nPlease use this information to provide personalized and relevant responses. When the user asks about themselves, their projects, preferences, or anything related to the above information, incorporate these details naturally into your response. Start your response by acknowledging you have this context information.">>

\* A variant of contextSection that leaves the header line out.
contentWithoutHeader(chunk) == chunk.content

\* One chunk of the prompt: its **section:** header line, when it has a
\* section, then its text.
contextSection(chunk) ==
  (IF chunk.section # Undefined
   THEN <<"*", "*">> \o chunk.section \o <<":", "*", "*", "\n">>
   ELSE <<>>) \o chunk.content

\* buildContextPrompt(userQuery, relevantChunks).  failure: an exception is
\* raised while the sections are built; the catch returns ''.
buildContextPrompt(userQuery, relevantChunks, failure) ==
  IF failure THEN <<>>
  ELSE IF Len(relevantChunks) = 0 THEN <<>>
  ELSE LET contextSections ==
             [k \in 1..Len(relevantChunks) |->
                contextSection(relevantChunks[k])]
       IN  PromptPreamble \o join(contextSections, <<"\n", "\n">>)
           \o PromptClosing

\* ------------------------------------------------------------ the inputs

\* Documents the file can hold.
DocEmpty == <<>>

DocBlank == <<" ", "\n">>

\* "# Lang\nRust Go\n# Play\nchess"
DocSections == <<"#", " ", "L", "a", "n", "g", "\n", "R", "u", "s", "t", " ", "G", "o", "\n", "#", " ", "P", "l", "a", "y", "\n", "c", "h", "e", "s", "s">>

\* "I like code"
DocPlain == <<"I", " ", "l", "i", "k", "e", " ", "c", "o", "d", "e">>

Documents == {DocEmpty, DocBlank, DocSections, DocPlain}

\* "rust?"
QueryRust == <<"r", "u", "s", "t", "?">>

\* "the and of": stop words only.
QueryStopWords == <<"t", "h", "e", " ", "a", "n", "d", " ", "o", "f">>

\* "java": a keyword no chunk of the documents has.
QueryJava == <<"j", "a", "v", "a">>

Queries == {QueryRust, QueryStopWords, QueryJava}

\* The call of getContextForQuery in which an exception is raised, if any:
\* extractRelevantChunks, or buildContextPrompt, where the template string
\* raises RangeError: Invalid string length when the sections joined are
\* longer than the longest string (two chunks that share a word of
\* 270000000 characters).
Faults == {"none", "extractRelevantChunks", "buildContextPrompt"}

\* Calls of the one exported MCPContextManager that can be awaiting a promise
\* at the same time: one while its callers take turns, two when the calls of
\* two mounted screens overlap.
Callers == {"a", "b"}

OneCaller == {"a"}

\* The inputs of the overlapping calls.
OverlapDocuments == {DocSections, DocPlain}

OverlapQueries == {QueryRust}

NoFaults == {"none"}

\* Chunking raises no exception.
NoFailure == {FALSE}

\* At most MaxRuns chunking runs draw identifiers.
MaxRuns == 2

\* Times are never compared by the code: new Date() and a file's mtime are
\* carried as tokens.
Date == "Date"

MTime == "mtime"

\* -------------------------------------------------------------- the state

VARIABLES
  file,             \* the document on storage: Null or Some([content])
  deleting,         \* deleteTestContextFile: the RNFS promise it awaits,
                    \* or "idle"
  contextDocument,  \* MCPContextManager.contextDocument
  lastFileCheck,    \* MCPContextManager.lastFileCheck
  isInitialized,    \* MCPContextManager.isInitialized
  uuidRuns,         \* chunking runs that have drawn identifiers
  pc,               \* per caller: the RNFS promise its call awaits, or "idle"
  op,               \* per caller: the method in progress
  userQuery,        \* per caller: getContextForQuery's argument
  content,          \* per caller: readContextFile's content, once read
  startedLater,     \* per caller in a call: the callers whose call started
                    \* after this one, "over" when one of those calls has
                    \* ended, and "cleanup" when cleanup() ran after it
                    \* started
  returned          \* the call that settled in the last step, with its result,
                    \* the RNFS promise that settled last (step) and whether
                    \* the file was on storage then (present)

vars == <<file, deleting, contextDocument, lastFileCheck, isInitialized, uuidRuns,
          pc, op, userQuery, content, startedLater, returned>>

storage == <<file, deleting>>

service == <<contextDocument, lastFileCheck, isInitialized, uuidRuns>>

callers == <<pc, op, userQuery, content, startedLater>>

\* Variants of availableDocument: one that does not look at the chunk list,
\* one that looks at nothing but the presence of a document.
availableWithoutChunks(document) == document # Null /\ document[1].isValid

availableWhenCached(document) == document # Null

\* MCPContextManager.isContextAvailable, of a cached document.
availableDocument(document) ==
  document # Null /\ document[1].isValid /\ Len(document[1].chunks) > 0

isContextAvailable == availableDocument(contextDocument)

\* getContextForQuery from the availability check on: the chunks it selects,
\* the call that raised (fault names the call that raises when reached) and
\* the value it resolves to.  An exception in extractRelevantChunks reaches
\* getContextForQuery's catch; one inside buildContextPrompt is caught there,
\* and getContextForQuery returns the '' that call returns.
promptAnswer(query, selected, fault) ==
  IF Len(selected) = 0
  THEN [relevantChunks |-> selected, raised |-> "none", ret |-> Null]
  ELSE [relevantChunks |-> selected,
        raised |-> IF fault = "buildContextPrompt" THEN fault ELSE "none",
        ret |-> Some(buildContextPrompt(query, selected,
                                        fault = "buildContextPrompt"))]

\* The catch of getContextForQuery, reached by an exception of
\* extractRelevantChunks: it logs the error and returns null.
queryCatch(fault) ==
  [relevantChunks |-> <<>>, raised |-> fault, ret |-> Null]

contextAnswer(query, document, fault) ==
  IF ~availableDocument(document)
  THEN [relevantChunks |-> <<>>, raised |-> "none", ret |-> Null]
  ELSE IF fault = "extractRelevantChunks"
  THEN queryCatch(fault)
  ELSE promptAnswer(query,
                    extractRelevantChunks(query, document[1].chunks), fault)

\* A variant of readDocument that marks every document valid.
readAlwaysValid(text, stats) ==
  [content      |-> text,
   lastModified |-> stats.mtime,
   size         |-> stats.size,
   chunks       |-> <<>>,
   isValid      |-> TRUE]

\* ContextFileManager.readContextFile's result once content and stats are in.
readDocument(text, stats) ==
  [content      |-> text,
   lastModified |-> stats.mtime,
   size         |-> stats.size,
   chunks       |-> <<>>,
   isValid      |-> Len(trim(text)) > 0]

\* A variant of readContextFileCatch that returns what was read before the
\* failure.
readSoFar(text) ==
  IF text = Null THEN Null
  ELSE Some(readDocument(text[1], [mtime |-> MTime, size |-> Len(text[1])]))

\* readContextFile's catch, entered when RNFS.readFile or RNFS.stat rejects:
\* return null, whatever was read before.
readContextFileCatch(text) == Null

\* Variants of refreshedDocument: one keeps the previous document when the new
\* one yields no chunks, one keeps it when no document is read, one adds the
\* new chunks to the previous ones.
keptWithoutChunks(document, chunks, previous) ==
  IF document # Null /\ Len(chunks) > 0
  THEN Some([document[1] EXCEPT !.chunks = chunks])
  ELSE IF document # Null THEN previous ELSE Null

keptWithoutDocument(document, chunks, previous) ==
  IF document # Null
  THEN Some([document[1] EXCEPT !.chunks = chunks])
  ELSE previous

mergedDocument(document, chunks, previous) ==
  IF document # Null
  THEN Some([document[1] EXCEPT
               !.chunks = IF previous # Null
                          THEN previous[1].chunks \o chunks
                          ELSE chunks])
  ELSE Null

\* The document refreshContext caches: the document read with its chunks, or
\* null when none was read.
refreshedDocument(document, chunks, previous) ==
  IF document # Null
  THEN Some([document[1] EXCEPT !.chunks = chunks])
  ELSE Null

\* A variant of queryInitializes that initializes at every query.
queryAlwaysInitializes(initialized) == TRUE

\* if (!this.isInitialized) await this.initialize()
queryInitializes(initialized) == ~initialized

\* A variant of forceRefreshResult that reports whether a document was read.
forceRefreshRead(document) == document # Null

\* forceRefresh: return this.isContextAvailable(), of the document now cached.
forceRefreshResult(document) == availableDocument(document)

\* useChatMessages.sendMessage: the content of the current user message,
\* the context before the question when getContextForQuery gave a string
\* that is not empty.
UserQuestion == <<"\n\nUser Question: ">>

messageContent(contextContent, query) ==
  IF contextContent # Null /\ contextContent[1] # <<>>
  THEN contextContent[1] \o UserQuestion \o query
  ELSE query

\* A variant of sendMessageAsks that does not look at the availability.
asksWhenEnabled(contextEnabled, contextAvailable) == contextEnabled

\* sendMessage calls the getContextForQuery it was given (ChatScreen gives
\* it the one of useContextManager) when context is enabled and available.
sendMessageAsks(contextEnabled, contextAvailable) ==
  contextEnabled /\ contextAvailable

\* useContextManager.getContextForQuery calls the manager unless context is
\* disabled or not available.
hookAsksManager(contextEnabled, contextAvailable) ==
  ~(~contextEnabled \/ ~contextAvailable)

\* initialize: this.isInitialized = true, after refreshContext, which never
\* throws.
initializedAfter(method, initialized) ==
  IF method \in {"initialize", "getContextForQuery", "sendMessage"}
  THEN TRUE ELSE initialized

\* cleanup: the fields it resets.
cleanedUp(document, lastCheck, initialized) ==
  [contextDocument |-> Null, lastFileCheck |-> lastCheck,
   isInitialized |-> FALSE]

InitOf(documents) ==
  /\ file \in {Null} \cup {Some([content |-> d]) : d \in documents}
  /\ deleting = "idle"
  /\ contextDocument = Null
  /\ lastFileCheck = Null
  /\ isInitialized = FALSE
  /\ uuidRuns = 0
  /\ pc = [p \in Callers |-> "idle"]
  /\ op = [p \in Callers |-> "none"]
  /\ userQuery = [p \in Callers |-> <<>>]
  /\ content = [p \in Callers |-> Null]
  /\ startedLater = [p \in Callers |-> {}]
  /\ returned = Null

\* ------------------------------------------------- MCPContextManager calls

\* A call starts and runs to RNFS.exists, the first await of
\* refreshContext -> readContextFile -> checkContextFileExists.
Await(p, method, query) ==
  /\ pc' = [pc EXCEPT ![p] = "exists"]
  /\ op' = [op EXCEPT ![p] = method]
  /\ userQuery' = [userQuery EXCEPT ![p] = query]
  /\ content' = [content EXCEPT ![p] = Null]
  /\ startedLater' =
       [q \in Callers |->
          IF q # p /\ pc[q] # "idle" THEN startedLater[q] \cup {p} ELSE {}]
  /\ returned' = Null
  /\ UNCHANGED <<service, storage>>

\* The caller's call is over; the calls in progress that started before it
\* have been overtaken.
Finish(p) ==
  /\ pc' = [pc EXCEPT ![p] = "idle"]
  /\ op' = [op EXCEPT ![p] = "none"]
  /\ userQuery' = [userQuery EXCEPT ![p] = <<>>]
  /\ content' = [content EXCEPT ![p] = Null]
  /\ startedLater' =
       [q \in Callers |->
          IF q = p THEN {}
          ELSE IF p \in startedLater[q] THEN startedLater[q] \cup {"over"}
          ELSE startedLater[q]]

\* readContextFile has returned document (null, or the document read) and the
\* call runs to its end in the same task: refreshContext caches the document
\* with its chunks, initialize sets isInitialized, forceRefresh returns the
\* availability, getContextForQuery answers.  The continuations of an await
\* whose promise is settled run as microtasks of the task that settled it, so
\* no other call and no storage event comes between them.
\* failure: chunking raises an exception.  fault: see contextAnswer.
Settle(p, document, failure, fault) ==
  LET chunks == IF document # Null
                THEN processContextContent(document[1].content,
                                           uuidRuns + 1, failure)
                ELSE <<>>
      cached == refreshedDocument(document, chunks, contextDocument)
      answer == IF op[p] \in {"getContextForQuery", "sendMessage"}
                THEN contextAnswer(userQuery[p], cached, fault)
                ELSE [relevantChunks |-> <<>>, raised |-> "none", ret |-> Null]
  IN  /\ Len(chunks) > 0 => uuidRuns < MaxRuns
      /\ contextDocument' = cached
      /\ lastFileCheck' = IF document # Null THEN Some(Date) ELSE lastFileCheck
      /\ uuidRuns' = IF Len(chunks) > 0 THEN uuidRuns + 1 ELSE uuidRuns
      /\ isInitialized' = initializedAfter(op[p], isInitialized)
      /\ returned' =
           Some([op |-> op[p], userQuery |-> userQuery[p],
                 refreshed |-> TRUE, read |-> document,
                 step |-> pc[p], present |-> file # Null,
                 \* a call that started after this one, and awaited the
                 \* storage, is over
                 overtaken |-> "over" \in startedLater[p],
                 \* cleanup() ran while this call awaited
                 cleaned |-> "cleanup" \in startedLater[p],
                 failure |-> document # Null /\ failure,
                 previous |-> contextDocument,
                 wasInitialized |-> isInitialized,
                 relevantChunks |-> answer.relevantChunks,
                 raised |-> answer.raised,
                 \* sendMessage reaches the manager with context enabled
                 \* and available only
                 contextEnabled |-> op[p] = "sendMessage",
                 contextAvailable |-> op[p] = "sendMessage",
                 asked |-> op[p] = "sendMessage",
                 queried |-> op[p] = "sendMessage",
                 messageContent |-> messageContent(answer.ret, userQuery[p]),
                 value |-> IF op[p] = "forceRefresh"
                           THEN Some(forceRefreshResult(cached))
                           ELSE answer.ret])
      /\ Finish(p)
      /\ UNCHANGED storage

\* initialize() is called.
Initialize(p) ==
  /\ pc[p] = "idle"
  /\ Await(p, "initialize", <<>>)

\* forceRefresh() is called.
ForceRefresh(p) ==
  /\ pc[p] = "idle"
  /\ Await(p, "forceRefresh", <<>>)

\* getContextForQuery(query) is called.  On an initialized service nothing is
\* awaited and the call runs to its end at once; otherwise it runs
\* initialize() first.
GetContextForQuery(p, query, fault) ==
  /\ IF queryInitializes(isInitialized)
     THEN /\ pc[p] = "idle"
          /\ Await(p, "getContextForQuery", query)
     ELSE LET answer == contextAnswer(query, contextDocument, fault)
          IN  /\ returned' =
                   Some([op |-> "getContextForQuery",
                         userQuery |-> query,
                         refreshed |-> FALSE, read |-> Null,
                         step |-> "none", present |-> file # Null,
                         failure |-> FALSE,
                         previous |-> contextDocument,
                         wasInitialized |-> isInitialized,
                         relevantChunks |-> answer.relevantChunks,
                         raised |-> answer.raised,
                         value |-> answer.ret])
              /\ UNCHANGED <<service, storage, callers>>

\* sendMessage(userMessage) is called with the contextEnabled and
\* contextAvailable of the render it belongs to, which are also those of the
\* getContextForQuery it was given.  It runs to the content of the message it
\* passes to generateText, at once unless the manager has to initialize.
SendMessage(p, contextEnabled, contextAvailable, query, fault) ==
  LET asked   == sendMessageAsks(contextEnabled, contextAvailable)
      queried == asked /\ hookAsksManager(contextEnabled, contextAvailable)
  IN  IF queried /\ queryInitializes(isInitialized)
      THEN /\ pc[p] = "idle"
           /\ Await(p, "sendMessage", query)
      ELSE LET answer ==
                 IF queried THEN contextAnswer(query, contextDocument, fault)
                 ELSE [relevantChunks |-> <<>>, raised |-> "none",
                       ret |-> Null]
           IN  /\ returned' =
                    Some([op |-> "sendMessage", userQuery |-> query,
                          refreshed |-> FALSE, read |-> Null,
                          step |-> "none", present |-> file # Null,
                          failure |-> FALSE,
                          previous |-> contextDocument,
                          wasInitialized |-> isInitialized,
                          relevantChunks |-> answer.relevantChunks,
                          raised |-> answer.raised,
                          contextEnabled |-> contextEnabled,
                          contextAvailable |-> contextAvailable,
                          asked |-> asked, queried |-> queried,
                          messageContent |-> messageContent(answer.ret, query),
                          value |-> answer.ret])
               /\ UNCHANGED <<service, storage, callers>>

\* RNFS.exists settles.  error: it rejects, and checkContextFileExists
\* returns false.  Without the file readContextFile returns null.
CheckContextFileExists(p, error, failure, fault) ==
  /\ pc[p] = "exists"
  /\ LET fileExists == file # Null /\ ~error
     IN  IF fileExists
         THEN /\ pc' = [pc EXCEPT ![p] = "readFile"]
              /\ returned' = Null
              /\ UNCHANGED <<service, storage, op, userQuery, content,
                             startedLater>>
         ELSE Settle(p, Null, failure, fault)

\* RNFS.readFile settles.  It rejects when the file is gone by now or the
\* read fails (error), and readContextFile returns null.
ReadFile(p, error, failure, fault) ==
  /\ pc[p] = "readFile"
  /\ IF file = Null \/ error
     THEN Settle(p, readContextFileCatch(content[p]), failure, fault)
     ELSE /\ pc' = [pc EXCEPT ![p] = "stat"]
          /\ content' = [content EXCEPT ![p] = Some(file[1].content)]
          /\ returned' = Null
          /\ UNCHANGED <<service, storage, op, userQuery, startedLater>>

\* RNFS.stat settles and readContextFile returns the document, or null when
\* stat rejects.
Stat(p, error, failure, fault) ==
  /\ pc[p] = "stat"
  /\ IF file = Null \/ error
     THEN Settle(p, readContextFileCatch(content[p]), failure, fault)
     ELSE Settle(p,
            Some(readDocument(content[p][1],
                   [mtime |-> MTime, size |-> Len(file[1].content)])),
            failure, fault)

\* cleanup(): stopWatching() finds no watcher (none is ever started).
Cleanup ==
  /\ LET after == cleanedUp(contextDocument, lastFileCheck, isInitialized)
     IN  /\ contextDocument' = after.contextDocument
         /\ lastFileCheck' = after.lastFileCheck
         /\ isInitialized' = after.isInitialized
  /\ startedLater' =
       [q \in Callers |->
          IF pc[q] # "idle" THEN startedLater[q] \cup {"cleanup"} ELSE {}]
  /\ returned' = Null
  /\ UNCHANGED <<uuidRuns, storage, pc, op, userQuery, content>>

\* ------------------------------------------------------------ the storage

\* The document is written (TestContextHelper.createTestContextFile, or the
\* user putting context.md in place).
WriteFile(d) ==
  /\ file' = Some([content |-> d])
  /\ file' # file
  /\ returned' = Null
  /\ UNCHANGED <<deleting, service, callers>>

\* TestContextHelper.deleteTestContextFile is called: it runs to its first
\* await, RNFS.exists, with the document untouched.
DeleteTestContextFile ==
  /\ deleting = "idle"
  /\ deleting' = "exists"
  /\ returned' = Null
  /\ UNCHANGED <<file, service, callers>>

\* RNFS.exists of deleteTestContextFile settles: with the document there the
\* helper goes on to await RNFS.unlink, the check done and the document still
\* in place; with no document, or when the promise rejects (error), the helper
\* returns and nothing is deleted.
DeleteExists(error) ==
  /\ deleting = "exists"
  /\ deleting' = IF ~error /\ file # Null THEN "unlink" ELSE "idle"
  /\ returned' = Null
  /\ UNCHANGED <<file, service, callers>>

\* RNFS.unlink of deleteTestContextFile settles: the document is deleted,
\* unless the promise rejects (error), and the helper returns.
DeleteFile(error) ==
  /\ deleting = "unlink"
  /\ deleting' = "idle"
  /\ file' = IF error THEN file ELSE Null
  /\ returned' = Null
  /\ UNCHANGED <<service, callers>>

\* -------------------------------------------------------- specifications

\* The calls of the service and the settling of the promises they await.
CallsOf(calls, queries, failures, faults) ==
  \/ \E p \in calls : Initialize(p)
  \/ \E p \in calls : ForceRefresh(p)
  \/ \E p \in calls, query \in queries, fault \in faults :
       GetContextForQuery(p, query, fault)
  \/ \E p \in calls, error \in BOOLEAN, failure \in failures,
        fault \in faults :
       CheckContextFileExists(p, error, failure, fault)
  \/ \E p \in calls, error \in BOOLEAN, failure \in failures,
        fault \in faults :
       ReadFile(p, error, failure, fault)
  \/ \E p \in calls, error \in BOOLEAN, failure \in failures,
        fault \in faults :
       Stat(p, error, failure, fault)

\* The storage: the document is written, and deleteTestContextFile runs.
StorageOf(documents) ==
  \/ \E d \in documents : WriteFile(d)
  \/ DeleteTestContextFile
  \/ \E error \in BOOLEAN : DeleteExists(error)
  \/ \E error \in BOOLEAN : DeleteFile(error)

NextOf(calls, documents, queries, faults) ==
  \/ CallsOf(calls, queries, BOOLEAN, faults)
  \/ Cleanup
  \/ StorageOf(documents)

\* One call at a time, as the callers of the service are required to make
\* them; cleanup() and the storage are free to act while a call awaits.
Init == InitOf(Documents)

Next == NextOf(OneCaller, Documents, Queries, Faults)

Spec == Init /\ [][Next]_vars

\* The chat screen: messages are sent, with context enabled or not and
\* reported available or not, while the service is used as above.
ChatDocuments == {DocBlank, DocSections}

ChatQueries == {QueryRust, QueryJava}

ChatInit == InitOf(ChatDocuments)

ChatNext ==
  \/ NextOf(OneCaller, ChatDocuments, ChatQueries, NoFaults)
  \/ \E p \in OneCaller, contextEnabled, contextAvailable \in BOOLEAN,
        query \in ChatQueries, fault \in NoFaults :
       SendMessage(p, contextEnabled, contextAvailable, query, fault)

ChatSpec == ChatInit /\ [][ChatNext]_vars

\* Two calls that overlap while the storage acts; cleanup() during a call
\* and a chunking that raises an exception are followed in Spec.
OverlapInit == InitOf(OverlapDocuments)

OverlapNext ==
  \/ CallsOf(Callers, OverlapQueries, NoFailure, NoFaults)
  \/ StorageOf(OverlapDocuments)

OverlapSpec == OverlapInit /\ [][OverlapNext]_vars

\* ------------------------------------------------ ContextProcessor calls

\* The sequences over S of length at most n.
SeqsUpTo(S, n) == UNION {[1..k -> S] : k \in 0..n}

\* The i-th of a list of distinct words of three letters.
word(i) ==
  <<LowerLetters[((i \div 676) % 26) + 1], LowerLetters[((i \div 26) % 26) + 1],
    LowerLetters[(i % 26) + 1]>>

words(from, to) == [i \in 1..(to - from + 1) |-> word(from + i - 1)]

\* Pieces of text for extractKeywords: words in both cases, a stop word, a
\* short word, words with markdown and punctuation inside, digits, a line
\* break; and words outside ASCII: Kelvin sign + "elvin", "ab" + capital I
\* with dot above, "abc" + vertical tab + no-break space + "def", "Ecole"
\* with a capital E with acute accent, capital omega + "mega", and the
\* Deseret capital long I (U+10400, a surrogate pair) + "abc".
KeywordTokens ==
  {<<"R", "u", "s", "t">>, <<"r", "u", "s", "t">>, <<"g", "o">>, <<"t", "h", "e">>, <<"T", "h", "e">>, <<"s", "n", "a", "k", "e", "_", "c", "a", "s", "e">>,
   <<"C", "+", "+">>, <<"i", "t", "'", "s">>, <<"2", "0", "2", "4">>, <<"*", "*", "b", "o", "l", "d", "*", "*">>, <<"\n">>, <<>>,
   <<"U+212A", "e", "l", "v", "i", "n">>, <<"a", "b", "U+0130">>, <<"a", "b", "c", "U+000B", "U+00A0", "d", "e", "f">>,
   <<"U+00C9", "c", "o", "l", "e">>, <<"U+03A9", "m", "e", "g", "a">>, <<"U+D801", "U+DC00", "a", "b", "c">>}

\* At most MaxTokens pieces make a text.
MaxTokens == 3

\* More distinct keywords than extractKeywords returns, each twice.
LongText == join(words(1, 25) \o words(1, 25), <<" ">>)

KeywordTexts ==
  {join(pieces, <<" ">>) : pieces \in SeqsUpTo(KeywordTokens, MaxTokens)}
    \cup {LongText}

\* Keywords for calculateSimpleRelevanceScore: one is part of another, one
\* has upper case, one is the empty string, and two end in a capital sigma:
\* after the cased letter alpha its lower case is the final sigma U+03C2,
\* after U+0295, a letter without case, it is the small sigma U+03C3.
ScoreKeywords ==
  {<<"g", "o">>, <<"G", "o">>, <<"g", "o", "l", "a", "n", "g">>, <<"r", "u", "s", "t">>, <<>>, <<"U+00C9", "t", "U+00E9">>,
   <<"U+00E9", "t", "U+00E9">>, <<"U+0391", "U+03A3">>, <<"U+03B1", "U+03C3">>,
   <<"U+0295", "U+03A3">>, <<"U+0295", "U+03C3">>}

\* At most MaxKeywords keywords in a list scored.
MaxKeywords == 2

\* The chunk createChunksFromSection makes of a text, as the k-th of a run.
chunkOf(text, section, k) ==
  [id       |-> uuid(1, k),
   content  |-> text,
   keywords |-> extractKeywords(text),
   section  |-> section]

\* Chunk texts for extractRelevantChunks.
ChunkTexts == {<<"r", "u", "s", "t">>, <<"r", "u", "s", "t", " ", "c", "h", "e", "s", "s">>, <<"j", "a", "v", "a">>}

\* At most MaxChunks chunks in a list searched.
MaxChunks == 6

ChunkLists ==
  {[k \in 1..Len(texts) |-> chunkOf(texts[k], Undefined, k)] :
     texts \in SeqsUpTo(ChunkTexts, MaxChunks)}

QueryBoth == <<"r", "u", "s", "t", " ", "c", "h", "e", "s", "s">>

\* A query of twenty keywords, two of them rust and chess.
QueryTwenty == QueryBoth \o <<" ">> \o join(words(1, 18), <<" ">>)

RelevanceQueries == {QueryRust, QueryStopWords, QueryBoth, QueryTwenty}

\* Chunks for buildContextPrompt, with and without a section.
PromptChunks ==
  {[text |-> <<"R", "u", "s", "t", " ", "G", "o">>, section |-> <<"L", "a", "n", "g">>],
   [text |-> <<"c", "h", "e", "s", "s">>, section |-> <<"P", "l", "a", "y">>],
   [text |-> <<"c", "h", "e", "s", "s">>, section |-> Undefined],
   [text |-> <<"I", " ", "l", "i", "k", "e", " ", "c", "o", "d", "e">>, section |-> Undefined]}

\* At most MaxSelected chunks in a selection.
MaxSelected == 3

Selections ==
  {[k \in 1..Len(picked) |->
      chunkOf(picked[k].text, picked[k].section, k)] :
     picked \in SeqsUpTo(PromptChunks, MaxSelected)}

\* A ContextProcessor method is called and returns.  The service is left as
\* it is; one call is followed per behaviour.
ExtractKeywords(text) ==
  /\ returned = Null
  /\ returned' = Some([op |-> "extractKeywords", content |-> text,
                       value |-> extractKeywords(text)])
  /\ UNCHANGED <<service, storage, callers>>

CalculateSimpleRelevanceScore(queryKeywords, keywords) ==
  /\ returned = Null
  /\ returned' =
       Some([op |-> "calculateSimpleRelevanceScore",
             queryKeywords |-> queryKeywords, keywords |-> keywords,
             value |-> calculateSimpleRelevanceScore(queryKeywords,
                         [keywords |-> keywords])])
  /\ UNCHANGED <<service, storage, callers>>

ExtractRelevantChunks(query, chunks) ==
  /\ returned = Null
  /\ returned' = Some([op |-> "extractRelevantChunks", userQuery |-> query,
                       chunks |-> chunks,
                       value |-> extractRelevantChunks(query, chunks)])
  /\ UNCHANGED <<service, storage, callers>>

BuildContextPrompt(query, relevantChunks, failure) ==
  /\ returned = Null
  /\ returned' =
       Some([op |-> "buildContextPrompt", userQuery |-> query,
             relevantChunks |-> relevantChunks, failure |-> failure,
             value |-> buildContextPrompt(query, relevantChunks, failure)])
  /\ UNCHANGED <<service, storage, callers>>

ProcessorInit == InitOf({})

ProcessorNext ==
  \/ \E text \in KeywordTexts : ExtractKeywords(text)
  \/ \E queryKeywords, keywords \in SeqsUpTo(ScoreKeywords, MaxKeywords) :
       CalculateSimpleRelevanceScore(queryKeywords, keywords)
  \/ \E query \in RelevanceQueries, chunks \in ChunkLists :
       ExtractRelevantChunks(query, chunks)
  \/ \E relevantChunks \in Selections, failure \in BOOLEAN :
       BuildContextPrompt(QueryRust, relevantChunks, failure)

ProcessorSpec == ProcessorInit /\ [][ProcessorNext]_vars


\* ---------------------------------------------------------------------
\* Chunking of whole documents with the program's window of CHUNK_SIZE words
\* and overlap of CHUNK_OVERLAP words.
\* ---------------------------------------------------------------------

\* At most SmallDocument words in a short document.
SmallDocument == 40

\* Numbers of words around the window: one step, two steps and a window, and
\* the 1200 words of the scenario.
LargeDocuments == {450, 951, 1200}

LeadingWhiteSpace == {<<>>, <<" ">>}

TrailingWhiteSpace == {<<>>, <<"\n">>}

\* A document is written from pieces, one per section: a header line when
\* the piece has a title, then count distinct words separated by blanks.
pieceText(piece) ==
  (IF piece.title # <<>> THEN <<"#", " ">> \o piece.title \o <<"\n">>
   ELSE <<>>) \o join(words(1, piece.count), <<" ">>)

documentContent(document) ==
  document.lead
    \o join([k \in 1..Len(document.pieces) |-> pieceText(document.pieces[k])],
            <<"\n">>)
    \o document.trail

\* Documents of one section without header, of every length up to
\* SmallDocument and of the large lengths, with and without white space
\* before and after.
SingleSectionDocuments ==
  {[pieces |-> <<[title |-> <<>>, count |-> n]>>, lead |-> lead,
    trail |-> trail] :
     n \in (0..SmallDocument) \cup LargeDocuments,
     lead \in LeadingWhiteSpace, trail \in TrailingWhiteSpace}

\* A document of two sections of several chunks each.
TwoSectionDocument ==
  [pieces |-> <<[title |-> <<"A", "l", "p", "h", "a">>, count |-> 500],
                [title |-> <<"B", "e", "t", "a">>, count |-> 951]>>,
   lead |-> <<>>, trail |-> <<"\n">>]

\* Short documents of two to MaxPieces sections with different titles:
\* words before the first header line or none, sections without words.
PieceTitles == {<<"A", "l", "p", "h", "a">>, <<"B", "e", "t", "a">>, <<"G", "a", "m", "m", "a">>}

PieceCounts == {0, 2}

MaxPieces == 3

FirstPieces ==
  {[title |-> title, count |-> n] :
     title \in PieceTitles \cup {<<>>}, n \in PieceCounts}

HeadedPieces ==
  {[title |-> title, count |-> n] : title \in PieceTitles, n \in PieceCounts}

differentTitles(pieces) ==
  \A i, j \in 1..Len(pieces) : i # j => pieces[i].title # pieces[j].title

SectionedPieces ==
  {<<first>> \o rest :
     first \in FirstPieces,
     rest \in UNION {[1..k -> HeadedPieces] : k \in 1..(MaxPieces - 1)}}

SectionedDocuments ==
  {[pieces |-> pieces, lead |-> <<>>, trail |-> <<"\n">>] :
     pieces \in {pieces \in SectionedPieces : differentTitles(pieces)}}

ChunkerDocuments ==
  SingleSectionDocuments \cup {TwoSectionDocument} \cup SectionedDocuments

\* processContextContent is called on the content of a document and returns
\* its chunks.
ProcessContextContent(document) ==
  /\ returned = Null
  /\ returned' =
       Some([op |-> "processContextContent", document |-> document,
             value |-> processContextContent(documentContent(document), 1,
                                             FALSE)])
  /\ UNCHANGED <<service, storage, callers>>

ChunkerInit == InitOf({})

ChunkerNext == \E document \in ChunkerDocuments : ProcessContextContent(document)

ChunkerSpec == ChunkerInit /\ [][ChunkerNext]_vars
\* -------------------------------------------------------------- properties

\* What the properties read off the call that has just returned.
hasReturned(method) == returned # Null /\ returned[1].op = method

hasRefreshed == returned # Null /\ returned[1].refreshed

hasAnswered == hasReturned("getContextForQuery")

blank(document) == Len(trim(document[1].content)) = 0

inProgress(p) == pc[p] # "idle"

\* C1: in every reachable state isContextAvailable() is true if and only if
\* a document is cached, the document is marked valid and its chunk list is
\* not empty.
C1_AvailableIffValidChunks ==
  isContextAvailable <=>
    (/\ contextDocument # Null
     /\ contextDocument[1].isValid
     /\ Len(contextDocument[1].chunks) > 0)

\* A call has left a usable document cached.
C1_Witness ==
  /\ hasReturned("initialize")
  /\ isContextAvailable
  /\ Len(contextDocument[1].chunks) = 2

\* C2: getContextForQuery returns a prompt that is neither null nor empty
\* whenever context is available, whatever the query, and returns null only
\* when context is not available.  (A call in which extractRelevantChunks
\* raises is left to C3.)
C2_PromptWheneverAvailable ==
  (hasAnswered /\ returned[1].raised # "extractRelevantChunks") =>
    /\ isContextAvailable =>
         (returned[1].value # Null /\ Len(returned[1].value[1]) > 0)
    /\ returned[1].value = Null => ~isContextAvailable

\* C3: getContextForQuery resolves to a string or to null, and when an
\* exception is raised while it selects the chunks or builds the prompt it
\* resolves to null and the cached document stays as it was.
C3_NullWhenRaised ==
  hasAnswered =>
    /\ returned[1].value = Null \/ Len(returned[1].value) = 1
    /\ returned[1].raised # "none" =>
         /\ returned[1].value = Null
         /\ returned[1].relevantChunks = <<>>
         /\ ~returned[1].refreshed => contextDocument = returned[1].previous

\* C4: when no document is read, or chunking raises an exception, during
\* initialize or a refresh, context is not available after the call and a
\* document cached before the call is not retained.
C4_FailureMeansUnavailable ==
  (hasRefreshed /\ (returned[1].read = Null \/ returned[1].failure)) =>
    /\ ~isContextAvailable
    /\ returned[1].read = Null => contextDocument = Null
    /\ returned[1].failure =>
         (contextDocument # Null /\ contextDocument[1].chunks = <<>>)
    /\ availableDocument(returned[1].previous) =>
         contextDocument # returned[1].previous

\* Chunking raised an exception while a usable document was cached.
C4_Witness ==
  /\ hasRefreshed
  /\ returned[1].failure
  /\ availableDocument(returned[1].previous)
  /\ ~isContextAvailable

\* C5: the chunks a getContextForQuery selects all come from one version of
\* the document, the one cached when it selects: they are chunks of one
\* chunking run and all of them are chunks of the cached document.
C5_OneVersion ==
  (hasAnswered /\ Len(returned[1].relevantChunks) > 0) =>
    LET selected == returned[1].relevantChunks
    IN  /\ contextDocument # Null
        /\ \A j, k \in 1..Len(selected) : selected[j].id[1] = selected[k].id[1]
        /\ \A k \in 1..Len(selected) :
             \E j \in 1..Len(contextDocument[1].chunks) :
               /\ contextDocument[1].chunks[j].id = selected[k].id
               /\ contextDocument[1].chunks[j].content = selected[k].content

\* A query is answered from the cached document while the refresh of another
\* call has read a different text and not yet replaced the document.
C5_Witness ==
  /\ hasAnswered
  /\ Len(returned[1].relevantChunks) > 0
  /\ \E p \in Callers :
       /\ inProgress(p)
       /\ op[p] = "forceRefresh"
       /\ content[p] # Null
       /\ content[p][1] # contextDocument[1].content

\* C6: forceRefresh returns the value isContextAvailable() has after the
\* reload: true if and only if the document read is valid and has a chunk,
\* false when no document is read or chunking raises an exception.
C6_ForceRefreshReturnsAvailability ==
  hasReturned("forceRefresh") =>
    /\ returned[1].value = Some(isContextAvailable)
    /\ returned[1].value = Some(TRUE) <=>
         (/\ returned[1].read # Null
          /\ returned[1].read[1].isValid
          /\ Len(contextDocument[1].chunks) > 0)
    /\ (returned[1].read = Null \/ returned[1].failure) =>
         returned[1].value = Some(FALSE)

\* forceRefresh has loaded a usable document and returned true.
C6_Witness ==
  /\ hasReturned("forceRefresh")
  /\ returned[1].value = Some(TRUE)
  /\ returned[1].read # Null

\* A step that makes context available: a refresh that has read a valid
\* document.
becomesAvailable ==
  (~isContextAvailable /\ isContextAvailable') =>
    /\ returned' # Null
    /\ returned'[1].refreshed
    /\ returned'[1].read # Null
    /\ returned'[1].read[1].isValid

\* C7: a refresh that finds the document deleted after a successful load
\* leaves context unavailable, and context stays unavailable until a refresh
\* or an initialize reads a valid document.
C7_DeletedThenRefreshed ==
  /\ []((hasRefreshed /\ returned[1].read = Null
          /\ availableDocument(returned[1].previous)) => ~isContextAvailable)
  /\ [][becomesAvailable]_vars

\* forceRefresh has found the document deleted after a successful load.
C7_Witness ==
  /\ hasReturned("forceRefresh")
  /\ file = Null
  /\ returned[1].read = Null
  /\ availableDocument(returned[1].previous)
  /\ returned[1].value = Some(FALSE)

\* C8: with a cached document whose content is empty or white space only,
\* context is not available, and getContextForQuery returns null.
C8_BlankDocument ==
  (contextDocument # Null /\ blank(contextDocument)) =>
    /\ ~isContextAvailable
    /\ hasAnswered => returned[1].value = Null

\* A query is answered null from a cached document of white space.
C8_Witness ==
  /\ hasAnswered
  /\ contextDocument # Null
  /\ contextDocument[1].content = DocBlank
  /\ returned[1].value = Null

\* A getContextForQuery on an initialized service: it awaits nothing, and
\* answers in the step it is called in, leaving the cached state as it is.
answersFromCache ==
  /\ \A p \in Callers :
       (isInitialized /\ ~inProgress(p) /\ inProgress(p)') =>
         op'[p] # "getContextForQuery"
  /\ (returned' # Null /\ returned'[1].op = "getContextForQuery"
        /\ ~returned'[1].refreshed) =>
       (isInitialized /\ UNCHANGED <<service, file, callers>>)

\* C9: when initialize() has completed the service is initialized, whether
\* or not a document was loaded, and a getContextForQuery called on an
\* initialized service answers from the cached state without reading the
\* document.
C9_InitializedThenCached ==
  /\ [](hasReturned("initialize") => isInitialized)
  /\ [][answersFromCache]_vars

\* Initialized without a document, a query is answered null without a read.
C9_Witness ==
  /\ hasAnswered
  /\ ~returned[1].refreshed
  /\ isInitialized
  /\ contextDocument = Null
  /\ file # Null
  /\ returned[1].value = Null

\* C10: initialize() on an initialized service leaves the cached document
\* with its chunk list, and the initialized flag, as they were.
C10_InitializeIdempotent ==
  (hasReturned("initialize") /\ returned[1].wasInitialized) =>
    /\ contextDocument = returned[1].previous
    /\ isInitialized

\* C11: after cleanup() the service is in its initial state: no cached
\* document, no time of a last refresh, not initialized.
C11_CleanupRestoresInitialState ==
  [][Cleanup => (/\ contextDocument' = Null
                 /\ lastFileCheck' = Null
                 /\ isInitialized' = FALSE)]_vars

\* A getContextForQuery on a service that is not initialized answers only at
\* the end of the initialize it runs.
initializesBeforeAnswering ==
  (~isInitialized /\ returned' # Null
     /\ returned'[1].op = "getContextForQuery") => returned'[1].refreshed

\* C12: a getContextForQuery called on a service that is not initialized
\* runs initialize before it answers, leaves the service initialized, and
\* returns a prompt when it has read a valid document.  (Calls in which
\* chunking or extractRelevantChunks raises are left aside.)
C12_LazyInitialize ==
  /\ [][initializesBeforeAnswering]_vars
  /\ []((hasAnswered /\ returned[1].refreshed) =>
          /\ isInitialized
          /\ (/\ returned[1].read # Null
              /\ returned[1].read[1].isValid
              /\ ~returned[1].failure
              /\ returned[1].raised # "extractRelevantChunks") =>
               (returned[1].value # Null /\ Len(returned[1].value[1]) > 0))

\* C17: a refresh that reads the text already cached, chunked without an
\* exception both times, yields a chunk list equal to the cached one in ids,
\* texts and keywords.
C17_ChunkingDeterministic ==
  (/\ hasRefreshed
   /\ returned[1].previous # Null
   /\ contextDocument # Null
   /\ contextDocument[1].content = returned[1].previous[1].content
   /\ Len(returned[1].previous[1].chunks) > 0
   /\ Len(contextDocument[1].chunks) > 0) =>
    contextDocument[1].chunks = returned[1].previous[1].chunks

\* What the properties about extractRelevantChunks read off its call: the
\* position of a selected chunk in the list searched, the score of a chunk
\* of that list, and the order the selection is to be in: descending by
\* score, chunks of equal score in the order of the list.
positionOf(chunk, chunks) == CHOOSE j \in 1..Len(chunks) : chunks[j].id = chunk.id

scoreIn(call, j) ==
  calculateSimpleRelevanceScore(extractKeywords(call.userQuery), call.chunks[j])

exceeds(a, b) == a.num * b.den > b.num * a.den

rankedBefore(call, i, j) ==
  \/ exceeds(scoreIn(call, i), scoreIn(call, j))
  \/ (~exceeds(scoreIn(call, j), scoreIn(call, i)) /\ i < j)

\* The selection is the count best of the candidates (positions in the list
\* searched), best first, each with its score.
selectsBest(call, candidates, count) ==
  LET selected == call.value
      at(k) == positionOf(selected[k], call.chunks)
  IN  /\ Len(selected) = count
      /\ \A k \in 1..Len(selected) :
           /\ \E j \in candidates : call.chunks[j].id = selected[k].id
           /\ selected[k].content = call.chunks[at(k)].content
           /\ selected[k].keywords = call.chunks[at(k)].keywords
           /\ selected[k].relevanceScore = scoreIn(call, at(k))
      /\ \A k \in 1..(Len(selected) - 1) : rankedBefore(call, at(k), at(k + 1))
      /\ \A j \in candidates :
           (\A k \in 1..Len(selected) : at(k) # j) =>
             \A k \in 1..Len(selected) : rankedBefore(call, at(k), j)

aboveIn(call) ==
  {j \in 1..Len(call.chunks) :
     scoreIn(call, j).num * 20 > scoreIn(call, j).den}

\* C13: when there are chunks and none scores above the threshold,
\* extractRelevantChunks returns min(2, number of chunks) chunks, the
\* highest-scoring ones, equal scores in document order; for a query without
\* keywords these are the first chunks of the document in document order.
C13_FallbackTopTwo ==
  (/\ hasReturned("extractRelevantChunks")
   /\ Len(returned[1].chunks) > 0
   /\ aboveIn(returned[1]) = {}) =>
    /\ selectsBest(returned[1], 1..Len(returned[1].chunks),
                   Min(2, Len(returned[1].chunks)))
    /\ extractKeywords(returned[1].userQuery) = <<>> =>
         \A k \in 1..Len(returned[1].value) :
           returned[1].value[k].id = returned[1].chunks[k].id

\* With twenty query keywords, a chunk matching one of them scores the
\* threshold exactly: the fallback puts it before an earlier chunk scoring 0.
C13_Witness ==
  /\ hasReturned("extractRelevantChunks")
  /\ returned[1].userQuery = QueryTwenty
  /\ Len(returned[1].chunks) = 3
  /\ aboveIn(returned[1]) = {}
  /\ Len(returned[1].value) = 2
  /\ returned[1].value[1].id = returned[1].chunks[2].id
  /\ returned[1].value[1].relevanceScore = Score(1, 20)
  /\ returned[1].value[2].id = returned[1].chunks[1].id

\* C14: when a chunk scores above 0.05, extractRelevantChunks returns only
\* chunks scoring strictly above 0.05, at most 5 of them, the
\* highest-scoring ones, in descending order of score, equal scores in
\* document order.
C14_AboveThresholdTopFive ==
  (/\ hasReturned("extractRelevantChunks")
   /\ aboveIn(returned[1]) # {}) =>
    /\ selectsBest(returned[1], aboveIn(returned[1]),
                   Min(5, Cardinality(aboveIn(returned[1]))))
    /\ \A k \in 1..Len(returned[1].value) :
         returned[1].value[k].relevanceScore.num * 20
           > returned[1].value[k].relevanceScore.den

\* Six chunks score above the threshold and one scores it exactly: five are
\* returned, a later chunk of higher score first.
C14_Witness ==
  /\ hasReturned("extractRelevantChunks")
  /\ returned[1].userQuery = QueryTwenty
  /\ Len(returned[1].chunks) = 6
  /\ Cardinality(aboveIn(returned[1])) = 5
  /\ \E j \in 1..6 : scoreIn(returned[1], j) = Score(1, 20)
  /\ Len(returned[1].value) = 5

\* a occurs in b as a run of consecutive characters.
partOf(a, b) ==
  \E k \in 0..(Len(b) - Len(a)) : SubSeq(b, k + 1, k + Len(a)) = a

\* The capital of a letter, for the letters that ScoreKeywords has in both
\* cases: g, e with acute, alpha and sigma, small or final.
capitalOf(c) ==
  CASE c = "g" -> "G"
    [] c = "U+00E9" -> "U+00C9"
    [] c = "U+03B1" -> "U+0391"
    [] c = "U+03C3" -> "U+03A3"
    [] c = "U+03C2" -> "U+03A3"
    [] OTHER -> c

\* A keyword with its case set aside: every letter as its capital.
caseless(keyword) == [i \in DOMAIN keyword |-> capitalOf(keyword[i])]

\* The positions of the query keywords that match a chunk keyword: one is part
\* of the other, upper and lower case taken as equal.
matched(queryKeywords, keywords) ==
  {i \in 1..Len(queryKeywords) :
     \E j \in 1..Len(keywords) :
       \/ partOf(caseless(queryKeywords[i]), caseless(keywords[j]))
       \/ partOf(caseless(keywords[j]), caseless(queryKeywords[i]))}

keywordChars == {LowerLetters[i] : i \in DOMAIN LowerLetters} \cup DigitChars

\* The tokens of a text: the maximal runs of letters and digits of the text
\* in lower case, in the order they occur.
tokensOf(text) ==
  LET lowered == toLowerCase(text)
      inToken(i) == lowered[i] \in keywordChars
      starts == SelectSeq(Indices(lowered),
                  LAMBDA i : inToken(i) /\ (i = 1 \/ ~inToken(i - 1)))
      endOf(i) == MinOf({j \in i..Len(lowered) :
                          j = Len(lowered) \/ ~inToken(j + 1)})
  IN  [k \in 1..Len(starts) |-> SubSeq(lowered, starts[k], endOf(starts[k]))]

\* The first 20 distinct tokens of at least 3 characters that are no stop
\* words, in the order of their first occurrence.
firstKeywords(text) ==
  LET passing == SelectSeq(tokensOf(text),
                   LAMBDA token : Len(token) >= 3 /\ token \notin stopWordSet)
      firsts == SelectSeq(Indices(passing),
                  LAMBDA i : \A j \in 1..(i - 1) : passing[j] # passing[i])
  IN  [k \in 1..Min(20, Len(firsts)) |-> passing[firsts[k]]]

\* C16: extractKeywords returns at most 20 tokens in lower case, without
\* repetition, each of at least 3 characters and none a stop word: the first
\* 20 distinct tokens of the text that pass the two filters, in the order of
\* their first occurrence.
C16_FirstTwentyKeywords ==
  hasReturned("extractKeywords") =>
    LET keywords == returned[1].value
    IN  /\ Len(keywords) <= 20
        /\ \A k \in 1..Len(keywords) :
             /\ Len(keywords[k]) >= 3
             /\ keywords[k] \notin stopWordSet
             /\ \A i \in 1..Len(keywords[k]) :
                  keywords[k][i] \in keywordChars
             /\ \A j \in 1..(k - 1) : keywords[j] # keywords[k]
        /\ keywords = firstKeywords(returned[1].content)

\* Of 25 distinct words, each occurring twice, the first 20 are returned.
C16_Witness ==
  /\ hasReturned("extractKeywords")
  /\ returned[1].content = LongText
  /\ Len(returned[1].value) = 20
  /\ returned[1].value[20] = word(20)


\* The first position from which on a text occurs in a string, at or after a
\* position; 0 when there is none.
firstAt(string, text, from) ==
  LET places == {i \in from..(Len(string) - Len(text) + 1) :
                   SubSeq(string, i, i + Len(text) - 1) = text}
  IN  IF places = {} THEN 0 ELSE MinOf(places)

\* The texts from the k-th on occur in a string one after the other, without
\* overlapping, at or after a position.
RECURSIVE inOrder(_, _, _, _)
inOrder(string, texts, k, from) ==
  IF k > Len(texts) THEN TRUE
  ELSE LET place == firstAt(string, texts[k], from)
       IN  /\ place # 0
           /\ inOrder(string, texts, k + 1, place + Len(texts[k]))

\* What the prompt shows of a chunk: the text of the chunk, after the line
\* **section:** when the chunk has a section title.
shown(chunk) ==
  IF chunk.section = Undefined THEN chunk.content
  ELSE <<"*", "*">> \o chunk.section \o <<":", "*", "*", "\n">>
       \o chunk.content

\* The prompt of a call shows the chunks of its selection in order; the
\* prompt of the empty selection is the empty string.
showsSelection(call) ==
  IF Len(call.relevantChunks) = 0 THEN call.value = <<>>
  ELSE inOrder(call.value,
               [k \in 1..Len(call.relevantChunks) |->
                  shown(call.relevantChunks[k])], 1, 1)

chunkWords(chunk) == splitOn(chunk.content, {" "})

\* The k-th chunk is the last one of its section.
lastOfSection(chunks, k) ==
  k = Len(chunks) \/ chunks[k + 1].section # chunks[k].section

firstWords(a, n) == SubSeq(a, 1, n)

lastWords(a, n) == SubSeq(a, Len(a) - n + 1, Len(a))

\* C19: in one section, the last CHUNK_OVERLAP words of a chunk are the first
\* CHUNK_OVERLAP words of the chunk after it, and no more than these are
\* shared (the words of a section being distinct), for every two consecutive
\* chunks of which the later is not the last chunk of the section.
C19_ConsecutiveChunksOverlap ==
  hasReturned("processContextContent") =>
    LET chunks == returned[1].value
    IN  \A k \in 1..(Len(chunks) - 1) :
          (chunks[k].section = chunks[k + 1].section
             /\ ~lastOfSection(chunks, k + 1)) =>
            LET earlier == chunkWords(chunks[k])
                later   == chunkWords(chunks[k + 1])
            IN  /\ Len(earlier) > CHUNK_OVERLAP
                /\ Len(later) > CHUNK_OVERLAP
                /\ lastWords(earlier, CHUNK_OVERLAP)
                     = firstWords(later, CHUNK_OVERLAP)
                /\ lastWords(earlier, CHUNK_OVERLAP + 1)
                     # firstWords(later, CHUNK_OVERLAP + 1)

\* A section of 951 words after its header line is cut into three chunks,
\* the second of which is not the last.
C19_Witness ==
  /\ hasReturned("processContextContent")
  /\ returned[1].document = TwoSectionDocument
  /\ Len(returned[1].value) = 5
  /\ returned[1].value[3].section = returned[1].value[5].section
  /\ returned[1].value[2].section # returned[1].value[3].section
  /\ lastWords(chunkWords(returned[1].value[3]), CHUNK_OVERLAP)
       = words(449, 498)

\* The document chunked has one section, without header line.
singleSection(document) ==
  Len(document.pieces) = 1 /\ document.pieces[1].title = <<>>

\* C20: a document of one section of N words is cut into
\* ceil(N / (CHUNK_SIZE - CHUNK_OVERLAP)) chunks, the j-th of which (from 0)
\* starts at word j * (CHUNK_SIZE - CHUNK_OVERLAP) and has at most CHUNK_SIZE
\* words, whatever white space comes before the first and after the last
\* word.
C20_ChunkCountAndStarts ==
  (hasReturned("processContextContent")
     /\ singleSection(returned[1].document)) =>
    LET N      == returned[1].document.pieces[1].count
        step   == CHUNK_SIZE - CHUNK_OVERLAP
        chunks == returned[1].value
    IN  /\ Len(chunks) = (N + step - 1) \div step
        /\ \A j \in 0..(Len(chunks) - 1) :
             /\ chunkWords(chunks[j + 1])[1] = word(j * step + 1)
             /\ Len(chunkWords(chunks[j + 1])) <= CHUNK_SIZE

\* C21: readContextFile always returns to its caller, and returns no
\* document when RNFS.exists, RNFS.readFile or RNFS.stat fails, the file
\* removed after the existence check included; a document is returned only
\* when stat has settled with the file on storage.
C21_ReadNeverRaises ==
  hasRefreshed =>
    /\ returned[1].step \in {"exists", "readFile", "stat"}
    /\ returned[1].step \in {"exists", "readFile"} => returned[1].read = Null
    /\ ~returned[1].present => returned[1].read = Null
    /\ returned[1].read # Null =>
          /\ file # Null
          /\ returned[1].read[1].size = Len(file[1].content)
          /\ returned[1].read[1].lastModified = MTime
          /\ returned[1].read[1].chunks = <<>>

\* The file is removed between the existence check and the read: RNFS.readFile
\* rejects and no document is returned.
C21_Witness ==
  /\ hasRefreshed
  /\ returned[1].step = "readFile"
  /\ ~returned[1].present
  /\ returned[1].read = Null

\* C22: the load returns no document when the file is absent and when the
\* trimmed text of the file is empty, so that after a refresh no document
\* with an empty trimmed text is cached.
C22_NoDocumentForEmptyFile ==
  hasRefreshed =>
    /\ returned[1].read # Null => ~blank(returned[1].read)
    /\ contextDocument # Null => ~blank(contextDocument)

\* C23: every chunk of the cached document has a text that is not empty
\* after trimming and the keywords that extractKeywords gives for its text,
\* in every state that calls of initialize, forceRefresh and
\* getContextForQuery reach.
C23_ChunksTrimmedAndKeyed ==
  contextDocument # Null =>
    \A k \in 1..Len(contextDocument[1].chunks) :
       /\ Len(trim(contextDocument[1].chunks[k].content)) > 0
       /\ contextDocument[1].chunks[k].keywords
            = extractKeywords(contextDocument[1].chunks[k].content)

\* A query is answered from a cached document of two chunks with keywords.
C23_Witness ==
  /\ hasAnswered
  /\ ~returned[1].refreshed
  /\ contextDocument # Null
  /\ Len(contextDocument[1].chunks) = 2
  /\ \A k \in 1..2 : Len(contextDocument[1].chunks[k].keywords) > 0

\* C24: a getContextForQuery that returns on an initialized service leaves
\* the cached document with its chunk list, the time of the last refresh and
\* the initialized flag as they were, whatever the query and whether the
\* chunks are selected above the threshold or by the fallback.
C24_QueryChangesNothing ==
  [][(/\ isInitialized
      /\ returned' # Null
      /\ returned'[1].op = "getContextForQuery") =>
       (/\ contextDocument' = contextDocument
        /\ lastFileCheck' = lastFileCheck
        /\ isInitialized' = isInitialized
        /\ uuidRuns' = uuidRuns)]_vars

\* A query is answered by the fallback on an initialized service and the
\* cached document is the one from before the call.
C24_Witness ==
  /\ hasAnswered
  /\ returned[1].wasInitialized
  /\ ~returned[1].refreshed
  /\ isInitialized
  /\ returned[1].userQuery = QueryJava
  /\ Len(returned[1].relevantChunks) = FALLBACK_CHUNKS
  /\ returned[1].value # Null
  /\ contextDocument = returned[1].previous
  /\ lastFileCheck = Some(Date)

\* The words of a piece of a document: those of its header line, then its
\* own.
pieceWords(piece) ==
  (IF piece.title # <<>> THEN <<<<"#">>, piece.title>> ELSE <<>>)
    \o words(1, piece.count)

\* a is a run of consecutive elements of b.
runOf(a, b) ==
  \E i \in 1..(Len(b) - Len(a) + 1) : SubSeq(b, i, i + Len(a) - 1) = a

\* C25: the words of every chunk are consecutive words of one section of the
\* document, header line included, and do not reach into the next section;
\* the section title of the chunk is the title of that section's header; the
\* chunks of a document without header line, and those of the words before
\* the first header line, have no section title.
C25_ChunksWithinOneSection ==
  hasReturned("processContextContent") =>
    LET pieces == returned[1].document.pieces
        chunks == returned[1].value
    IN  /\ \A k \in 1..Len(chunks) :
             \E s \in 1..Len(pieces) :
                /\ runOf(chunkWords(chunks[k]), pieceWords(pieces[s]))
                /\ chunks[k].section
                     = (IF pieces[s].title # <<>> THEN pieces[s].title
                        ELSE Undefined)
        /\ (\A s \in 1..Len(pieces) : pieces[s].title = <<>>) =>
             \A k \in 1..Len(chunks) : chunks[k].section = Undefined

\* A document of words before the first header line and two sections gives
\* three chunks: one without section title and one of each section.
C25_Witness ==
  /\ hasReturned("processContextContent")
  /\ Len(returned[1].document.pieces) = 3
  /\ returned[1].document.pieces[1] = [title |-> <<>>, count |-> 2]
  /\ returned[1].document.pieces[2].title # returned[1].document.pieces[3].title
  /\ Len(returned[1].value) = 3
  /\ returned[1].value[1].section = Undefined
  /\ returned[1].value[2].section = returned[1].document.pieces[2].title
  /\ returned[1].value[3].section = returned[1].document.pieces[3].title

\* C26: when a message is sent with context disabled, or reported not
\* available, neither the getContextForQuery of the screen nor the context
\* manager is called, and the content passed to the model for the message is
\* the query of the user as it is.
C26_NoContextWhenDisabled ==
  (hasReturned("sendMessage")
     /\ (~returned[1].contextEnabled \/ ~returned[1].contextAvailable)) =>
    /\ ~returned[1].asked
    /\ ~returned[1].queried
    /\ returned[1].messageContent = returned[1].userQuery

\* A message is sent with context enabled but reported not available while
\* the manager holds a document that answers the query.
C26_Witness ==
  /\ hasReturned("sendMessage")
  /\ returned[1].contextEnabled
  /\ ~returned[1].contextAvailable
  /\ isInitialized
  /\ isContextAvailable
  /\ returned[1].userQuery = QueryRust
  /\ returned[1].messageContent = QueryRust

\* C27: after a refresh that caches a document, the document is marked valid
\* if and only if its chunk list is not empty, unless chunking has raised an
\* exception; a valid document without chunks is cached only in that case.
C27_ValidIffChunks ==
  (hasRefreshed /\ contextDocument # Null) =>
    /\ ~returned[1].failure =>
         (contextDocument[1].isValid <=> Len(contextDocument[1].chunks) > 0)
    /\ (contextDocument[1].isValid /\ Len(contextDocument[1].chunks) = 0) =>
         returned[1].failure

\* Chunking raises an exception during a refresh and a valid document without
\* chunks is cached.
C27_Witness ==
  /\ hasRefreshed
  /\ contextDocument # Null
  /\ returned[1].failure
  /\ contextDocument[1].isValid
  /\ Len(contextDocument[1].chunks) = 0

\* C28: when the calls of two refreshes overlap and both are over, the cached
\* document is the one read by the refresh that started last: a refresh that
\* settles after a refresh that started later than itself leaves the
\* document cached by that one in place.
C28_LastStartedWins ==
  (/\ hasRefreshed
   /\ returned[1].overtaken
   /\ returned[1].previous # Null
   /\ \A p \in Callers : pc[p] = "idle") =>
    (/\ contextDocument # Null
     /\ contextDocument[1].content = returned[1].previous[1].content)

\* C29: when cleanup() is called while initialize or a refresh awaits the
\* file, the service is in the cleaned state once that call is over: no
\* document is cached and the service is not initialized.
C29_CleanedAfterLateCompletion ==
  (hasRefreshed /\ returned[1].cleaned) =>
    (contextDocument = Null /\ ~isInitialized)

\* The section title of the chunks of a piece.
sectionOf(piece) == IF piece.title # <<>> THEN piece.title ELSE Undefined

\* The place of a word among the words of a piece, which are distinct.
placeIn(w, piece) ==
  CHOOSE i \in 1..Len(pieceWords(piece)) : pieceWords(piece)[i] = w

\* C30: every word of the document is in a chunk of its section, the words
\* of a chunk are consecutive words of the section in their order, and the
\* chunks of a section start at increasing places of the section.
C30_NoWordLost ==
  hasReturned("processContextContent") =>
    LET pieces == returned[1].document.pieces
        chunks == returned[1].value
        inChunks == [k \in 1..Len(chunks) |-> chunkWords(chunks[k])]
        held(s) == UNION {{inChunks[k][i] : i \in 1..Len(inChunks[k])} :
                            k \in {k \in 1..Len(chunks) :
                                     chunks[k].section = sectionOf(pieces[s])}}
    IN  /\ \A s \in 1..Len(pieces) :
             {pieceWords(pieces[s])[i] : i \in 1..Len(pieceWords(pieces[s]))}
               \subseteq held(s)
        /\ \A k \in 1..Len(chunks) :
             \E s \in 1..Len(pieces) :
                /\ chunks[k].section = sectionOf(pieces[s])
                /\ runOf(inChunks[k], pieceWords(pieces[s]))
                /\ (k < Len(chunks)
                      /\ chunks[k + 1].section = chunks[k].section) =>
                     placeIn(inChunks[k][1], pieces[s])
                       < placeIn(inChunks[k + 1][1], pieces[s])

\* A document of 1200 words after a blank is cut into three chunks, the last
\* of which ends with the last word.
C30_Witness ==
  /\ hasReturned("processContextContent")
  /\ singleSection(returned[1].document)
  /\ returned[1].document.pieces[1].count = 1200
  /\ returned[1].document.lead = <<" ">>
  /\ Len(returned[1].value) = 3
  /\ lastWords(chunkWords(returned[1].value[3]), 1) = <<word(1200)>>
====
